---------------------------- MODULE Spec2Model ----------------------------
(***************************************************************************)
(* Model of the Reeb repository: the persistence map of a bilinear image   *)
(* (persistence.cpp, driven by pmbil's main) and the extraction of the     *)
(* level lines of extrema and saddles (levelLine.cpp).                     *)
(*                                                                         *)
(* Pixel arrays are functions on 0..n-1, as in the C++ code.  The float    *)
(* values of persistence.cpp are modelled as exact rationals <<num,den>>   *)
(* with den > 0, in lowest terms; the levels of levelLine.cpp are counted  *)
(* in units of DELTA_LEVEL = 1/QLEVEL.                                     *)
(***************************************************************************)
EXTENDS Integers, Sequences, FiniteSets, TLC

(***************************************************************************)
(* Bounds of the model.                                                    *)
(***************************************************************************)
\* Pixel values of the exhaustively enumerated images are 0..MaxLevel.
MaxLevel == 3

(***************************************************************************)
(* Exact rational arithmetic for the float values.                         *)
(***************************************************************************)
Abs(i) == IF i < 0 THEN -i ELSE i

RECURSIVE Gcd(_, _)
Gcd(a, b) == IF b = 0 THEN a ELSE Gcd(b, a % b)

\* The rational n/d (d # 0) in lowest terms with a positive denominator.
Rat(n, d) ==
    LET g == Gcd(Abs(n), Abs(d))
        s == IF d < 0 THEN -1 ELSE 1
    IN  <<(s * n) \div g, (s * d) \div g>>

RInt(i) == <<i, 1>>
RLt(a, b) == a[1] * b[2] < b[1] * a[2]
RAdd(a, b) == Rat(a[1] * b[2] + b[1] * a[2], a[2] * b[2])
RSub(a, b) == Rat(a[1] * b[2] - b[1] * a[2], a[2] * b[2])
RMul(a, b) == Rat(a[1] * b[1], a[2] * b[2])
RDiv(a, b) == Rat(a[1] * b[2], a[2] * b[1])

(***************************************************************************)
(* State.                                                                  *)
(***************************************************************************)
VARIABLES
    w, h,        \* size of the image
    pc,          \* position in the program
    \* ---- pmbil (main) and persistence()
    input,       \* main's float* im: the image read, then 255 - image
    run,         \* "min": first call of persistence, "max": second call
    fim,         \* persistence's im: 2*w*h values, real then virtual samples
    orderedPos,  \* the samples sorted by CompareSamples
    p,           \* persistence's p: position in orderedPos (0-based)
    par, zpar,   \* parent and path-compressed parent of each sample slot
    index,       \* map from canonical sample to node index
    tree,        \* vector<Node>
    treeRoot,    \* compute_tree's root
    pm_min, pm_max, \* main's two output maps
    \* ---- extract() of levelLine.cpp
    im,          \* the image, unsigned char values
    visit,       \* vector<bool>: the horizontal edgels traversed
    ll,          \* the level lines extracted so far
    inter,       \* the row log: for each row, its (abscissa, line index)
    vu,          \* handle_extrema's array of explored pixels
    scan,        \* handle_extrema's loop position <<x, y>>
    V,           \* the pixels of the plateau found by find_extremum
    it,          \* the iterator, in V or in S (0-based position)
    plateau,     \* handle_extrema's level and max of the current plateau
    S,           \* handle_saddles' sorted vector of saddles
    edge,        \* handle_saddles' i: which horizontal edgel of the saddle
    line,        \* the line being traced (level, type, points)
    dual,        \* the DualPixel of the trace: _pos, _d, _level
    pt,          \* the point p of the trace
    lineLevel,   \* the level v of the lines being extracted
    start,       \* history: the dual pixel as its constructor left it
    caller,      \* where the trace returns: "extrema" or "saddles"
    ptsPixel,    \* extract's ptsPixel: points of discretization per pixel
    \* ---- the saddle test and qlevel applied to given values
    arg,         \* a saddle value given to qlevel
    res          \* the results of level_saddle, fill_virtual_samples, qlevel

pvars == <<input, run, fim, orderedPos, p, par, zpar, index, tree, treeRoot,
           pm_min, pm_max>>
evars == <<im, visit, ll, inter, vu, scan, V, it, plateau, S, edge, line,
           dual, pt, lineLevel, start, caller, ptsPixel, arg, res>>
vars == <<w, h, pc, pvars, evars>>


(***************************************************************************)
(* persistence.cpp: samples.                                               *)
(***************************************************************************)
\* struct Sample; the default constructor gives x = y = -1, real = true.
Sample(x0, y0, r) == [x |-> x0, y |-> y0, real |-> r]
NoSample == Sample(-1, -1, TRUE)

\* Sample::operator<
SampleLess(s, t) ==
    IF s.real # t.real THEN s.real
    ELSE s.y < t.y \/ (s.y = t.y /\ s.x < t.x)

\* idx(): the slot of a sample in the arrays of 2*w*h elements.
idx(s) == s.x + (IF s.real THEN s.y ELSE s.y + h) * w

\* The real and the virtual samples, as persistence() enumerates them.
AllSamples == {Sample(x, y, r) : x \in 0..(w - 1), y \in 0..(h - 1),
                                 r \in BOOLEAN}

\* CompareSamples::operator(): order by value, then by Sample::operator<.
CompareSamples(v, s, t) ==
    LET v1 == v[idx(s)]
        v2 == v[idx(t)]
    IN  RLt(v1, v2) \/ (v1 = v2 /\ SampleLess(s, t))

\* The value fill_virtual_samples gives to the dual pixel of top-left corner
\* (x,y): its saddle value, or the sentinel -1.
VirtualValue(v, x, y) ==
    IF x + 1 < w /\ y + 1 < h
    THEN LET a == v[x + y * w]
             b == v[x + 1 + y * w]
             c == v[x + (y + 1) * w]
             d == v[x + 1 + (y + 1) * w]
             min == IF RLt(d, a) THEN d ELSE a
             max == IF RLt(d, a) THEN a ELSE d
             sb == IF RLt(b, min) THEN -1 ELSE IF RLt(max, b) THEN 1 ELSE 0
             sc == IF RLt(c, min) THEN -1 ELSE IF RLt(max, c) THEN 1 ELSE 0
         IN  IF sb * sc > 0
             THEN RDiv(RSub(RMul(a, d), RMul(b, c)),
                       RSub(RSub(RAdd(a, d), b), c))
             ELSE RInt(-1)
    ELSE RInt(-1)

\* fill_virtual_samples: the array im of persistence(), real samples in
\* slots 0..n-1 (copied from the input), virtual ones in n..2n-1.
fill_virtual_samples(in) ==
    LET n == w * h
        v == [k \in 0..(n - 1) |-> RInt(in[k])]
    IN  [k \in 0..(2 * n - 1) |->
            IF k < n THEN v[k] ELSE VirtualValue(v, (k - n) % w, (k - n) \div w)]

\* std::sort(orderedPos, end, cmp): cmp is a strict total order on the
\* samples, so the sorted array is unique.  Positions are 0-based.
SortSamples(v) ==
    LET rank == [s \in AllSamples |->
                    Cardinality({t \in AllSamples : CompareSamples(v, t, s)})]
    IN  [i \in 0..(2 * w * h - 1) |-> CHOOSE s \in AllSamples : rank[s] = i]

\* std::upper_bound(orderedPos, end, dumb, cmp) with the sentinel sample
\* dumb = (w-1, h-1, virtual): the first position whose sample is after dumb.
UpperBound(v, ord) ==
    LET dumb == Sample(w - 1, h - 1, FALSE)
        after == {i \in DOMAIN ord : CompareSamples(v, dumb, ord[i])}
    IN  IF after = {} THEN 2 * w * h
        ELSE CHOOSE i \in after : \A j \in after : i <= j

(***************************************************************************)
(* persistence.cpp: union-find merge.                                      *)
(***************************************************************************)
\* The neighbourhood arrays dx, dy: entries 0..7 for a real sample, 8..11
\* for a virtual one.
dx == <<1, 0, -1, 0, 1, -1, 1, -1, 0, 0, 1, 1>>
dy == <<0, 1, 0, -1, 1, 1, -1, -1, 0, 1, 0, 1>>

\* root(): the slot of the root of slot k.
RECURSIVE RootSlot(_, _)
RootSlot(zp, k) ==
    LET q == idx(zp[k]) IN IF q = k THEN k ELSE RootSlot(zp, q)

\* root(): path compression, every slot from k to the root takes the
\* content of the root slot.
RECURSIVE Compress(_, _)
Compress(zp, k) ==
    LET q == idx(zp[k])
    IN  IF q = k THEN zp
        ELSE LET z1 == Compress(zp, q)
             IN  [z1 EXCEPT ![k] = z1[RootSlot(zp, q)]]

\* A variant of the neighbour sample: every neighbour is a real sample.
NeighbourAllReal(s, i) ==
    LET i0 == IF s.real THEN 0 ELSE 8
    IN  Sample(s.x + dx[i0 + i + 1], s.y + dy[i0 + i + 1], TRUE)

\* The sample examined as i-th neighbour of s, as the merge loop builds it.
Neighbour(s, i) ==
    LET i0 == IF s.real THEN 0 ELSE 8
    IN  Sample(s.x + dx[i0 + i + 1], s.y + dy[i0 + i + 1], i < 4)

InImage(s) == ~(s.x < 0 \/ w <= s.x \/ s.y < 0 \/ h <= s.y)

\* The inner loop of the merge, from neighbour i on; st = [par, zpar].
RECURSIVE MergeNeighbours(_, _, _)
MergeNeighbours(s, i, st) ==
    LET nb == IF s.real THEN 8 ELSE 4
        k0 == idx(s)
        q == Neighbour(s, i)
        k == idx(q)
    IN  IF i >= nb THEN st
        ELSE IF ~InImage(q) THEN MergeNeighbours(s, i + 1, st)
        ELSE IF st.zpar[k].x < 0 THEN MergeNeighbours(s, i + 1, st)
        ELSE LET r == RootSlot(st.zpar, k)
                 z1 == Compress(st.zpar, k)
             IN  IF r # k0
                 THEN MergeNeighbours(s, i + 1,
                        [par |-> [st.par EXCEPT ![r] = s],
                         zpar |-> [z1 EXCEPT ![r] = s]])
                 ELSE MergeNeighbours(s, i + 1, [par |-> st.par, zpar |-> z1])

\* A variant of MergeSample that examines no neighbour.
MergeSampleAlone(s, pr, zp) ==
    [par |-> [pr EXCEPT ![idx(s)] = s], zpar |-> [zp EXCEPT ![idx(s)] = s]]

\* One iteration of the merge loop, for the sample s.
MergeSample(s, pr, zp) ==
    LET k0 == idx(s)
    IN  MergeNeighbours(s, 0, [par |-> [pr EXCEPT ![k0] = s],
                               zpar |-> [zp EXCEPT ![k0] = s]])

(***************************************************************************)
(* persistence.cpp: canonical elements.                                    *)
(***************************************************************************)
\* make_canonical, from position i of orderedPos downwards.
\* A variant of make_canonical: the sorted samples are walked forwards, from
\* the first processed one.
RECURSIVE CanonicalForward(_, _, _, _)
CanonicalForward(v, pr, ord, i) ==
    IF i >= 2 * w * h THEN pr
    ELSE LET slot == idx(ord[i])
             pp == pr[slot]
         IN  IF pp.x < 0 THEN CanonicalForward(v, pr, ord, i + 1)
             ELSE LET q == pr[idx(pp)]
                  IN  CanonicalForward(v,
                         IF v[idx(pp)] = v[idx(q)]
                         THEN [pr EXCEPT ![slot] = q] ELSE pr,
                         ord, i + 1)

make_canonical_forward(v, pr, ord, i) == CanonicalForward(v, pr, ord, 0)

RECURSIVE make_canonical(_, _, _, _)
make_canonical(v, pr, ord, i) ==
    IF i < 0 THEN pr
    ELSE LET slot == idx(ord[i])
             pp == pr[slot]
         IN  IF pp.x < 0 THEN pr
             ELSE LET q == pr[idx(pp)]
                  IN  make_canonical(v,
                         IF v[idx(pp)] = v[idx(q)]
                         THEN [pr EXCEPT ![slot] = q] ELSE pr,
                         ord, i - 1)

is_canonical(s, v, pr) ==
    LET parent == pr[idx(s)]
    IN  IF parent.x < 0 THEN FALSE
        ELSE IF s = parent THEN TRUE
        ELSE v[idx(parent)] # v[idx(s)]


(***************************************************************************)
(* persistence.cpp: the tree of canonical samples and its contrast.        *)
(***************************************************************************)
\* struct Node; the constructor sets level and contrast = 0, and leaves
\* parent unset (-1 here; the root keeps it, and it is never read).
Node(l) == [parent |-> -1, children |-> <<>>, level |-> l, contrast |-> RInt(0)]

\* The samples in the order of compute_tree's enumeration (real samples in
\* scan order, then virtual ones), which is the order of their slots and of
\* Sample::operator<.
SampleOfSlot(k) ==
    LET n == w * h
    IN  IF k < n THEN Sample(k % w, k \div w, TRUE)
        ELSE Sample((k - n) % w, (k - n) \div w, FALSE)

\* compute_tree, first loop: the canonical samples, numbered in order.
CanonicalSlots(v, pr) ==
    {k \in 0..(2 * w * h - 1) : is_canonical(SampleOfSlot(k), v, pr)}

EnumerateNodes(v, pr) ==
    LET ks == CanonicalSlots(v, pr)
        num(k) == Cardinality({j \in ks : j < k})
    IN  [index |-> [s \in {SampleOfSlot(k) : k \in ks} |-> num(idx(s))],
         tree |-> [i \in 0..(Cardinality(ks) - 1) |->
                     Node(v[CHOOSE k \in ks : num(k) = i])]]

\* std::map::operator[]: a key that is absent is inserted with value 0.
MapLookup(m, s) == IF s \in DOMAIN m THEN m[s] ELSE 0
MapInsert(m, s) == IF s \in DOMAIN m THEN m ELSE m @@ (s :> 0)

\* compute_tree, second loop ("Fill children"), over the keys of the map
\* after slot `last`; st = [index, tree, root].
RECURSIVE FillChildren(_, _, _)
FillChildren(pr, st, last) ==
    LET rest == {s \in DOMAIN st.index : idx(s) > last}
    IN  IF rest = {} THEN st
        ELSE LET s == CHOOSE t \in rest : \A u \in rest : idx(t) <= idx(u)
                 i == st.index[s]
                 parent == pr[idx(s)]
             IN  IF parent = s
                 THEN FillChildren(pr, [st EXCEPT !.root = i], idx(s))
                 ELSE LET m1 == MapInsert(st.index, parent)
                          pn == MapLookup(st.index, parent)
                      IN  FillChildren(pr,
                            [index |-> m1,
                             tree |-> [st.tree EXCEPT
                                 ![pn].children = Append(@, i),
                                 ![i].parent = pn],
                             root |-> st.root],
                            idx(s))

\* fill_contrast_uptree, and its loop over the children from the i-th on.
RECURSIVE fill_contrast_uptree(_, _)
RECURSIVE UptreeLoop(_, _, _, _)
fill_contrast_uptree(tr, n) == UptreeLoop(tr, n, 1, RInt(0))

\* A variant of UptreeLoop: the level of the child is not subtracted.
UptreeLoopNoChildLevel(tr, n, i, contrast) ==
    IF i > Len(tr[n].children)
    THEN [tr EXCEPT ![n].contrast = contrast]
    ELSE LET ch == tr[n].children[i]
             t1 == fill_contrast_uptree(tr, ch)
             c == RAdd(t1[ch].contrast, t1[n].level)
         IN  UptreeLoop(t1, n, i + 1, IF RLt(contrast, c) THEN c ELSE contrast)

UptreeLoop(tr, n, i, contrast) ==
    IF i > Len(tr[n].children)
    THEN [tr EXCEPT ![n].contrast = contrast]
    ELSE LET ch == tr[n].children[i]
             t1 == fill_contrast_uptree(tr, ch)
             c == RAdd(t1[ch].contrast, RSub(t1[n].level, t1[ch].level))
         IN  UptreeLoop(t1, n, i + 1, IF RLt(contrast, c) THEN c ELSE contrast)

RECURSIVE DominantChildren(_, _, _, _)
\* A variant of DominantChildren: the test contrast <= c is written contrast < c.
DominantChildrenStrict(tr, n, i, st) ==
    IF i > Len(tr[n].children) THEN st.maxChildren
    ELSE LET ch == tr[n].children[i]
             c == tr[ch].contrast
         IN  IF RLt(st.contrast, c)
             THEN DominantChildren(tr, n, i + 1,
                    [contrast |-> c, maxChildren |-> <<ch>>])
             ELSE DominantChildren(tr, n, i + 1, st)

\* fill_contrast_downtree, first loop: the children of maximal contrast.
\* st = [contrast, maxChildren].
DominantChildren(tr, n, i, st) ==
    IF i > Len(tr[n].children) THEN st.maxChildren
    ELSE LET ch == tr[n].children[i]
             c == tr[ch].contrast
         IN  IF ~RLt(c, st.contrast)
             THEN DominantChildren(tr, n, i + 1,
                    [contrast |-> c,
                     maxChildren |-> Append(IF st.contrast # c THEN <<>>
                                            ELSE st.maxChildren, ch)])
             ELSE DominantChildren(tr, n, i + 1, st)

\* fill_contrast_downtree: the dominant children take the contrast of n,
\* then the function is applied to every child.
RECURSIVE fill_contrast_downtree(_, _)
RECURSIVE DowntreeLoop(_, _, _)
\* A variant of fill_contrast_downtree: the dominant children are given the
\* maximum found among the children instead of the contrast of n.
fill_contrast_downtree_local(tr, n) == DowntreeLoop(tr, n, 1)

fill_contrast_downtree(tr, n) ==
    LET mc == DominantChildren(tr, n, 1,
                               [contrast |-> RInt(0), maxChildren |-> <<>>])
        dom == {mc[j] : j \in DOMAIN mc}
        t1 == [k \in DOMAIN tr |->
                 IF k \in dom THEN [tr[k] EXCEPT !.contrast = tr[n].contrast]
                 ELSE tr[k]]
    IN  DowntreeLoop(t1, n, 1)

DowntreeLoop(tr, n, i) ==
    IF i > Len(tr[n].children) THEN tr
    ELSE DowntreeLoop(fill_contrast_downtree(tr, tr[n].children[i]), n, i + 1)

\* What fill_persistence writes when index.at() throws std::out_of_range.
Thrown == <<0, 0>>

\* fill_persistence: the contrast of the node of each real pixel.
fill_persistence(v, pr, tr, m) ==
    [k \in 0..(w * h - 1) |->
        LET s0 == SampleOfSlot(k)
            s == IF ~is_canonical(s0, v, pr) THEN pr[idx(s0)] ELSE s0
        IN  IF s \in DOMAIN m THEN tr[m[s]].contrast ELSE Thrown]


(***************************************************************************)
(* Input images.                                                           *)
(***************************************************************************)
\* An image given by its rows (row-major sequence) as the array the code
\* indexes from 0.
Pixels(seq) == [k \in 0..(Len(seq) - 1) |-> seq[k + 1]]

\* The scenarios of the specification (section 8), with their sizes.
Constant5 == [w |-> 3, h |-> 3, px |-> Pixels(<<5,5,5, 5,5,5, 5,5,5>>)]
SingleMax == [w |-> 3, h |-> 3, px |-> Pixels(<<0,0,0, 0,9,0, 0,0,0>>)]
Checkerboard == [w |-> 2, h |-> 2, px |-> Pixels(<<0,9, 9,0>>)]
Ramp == [w |-> 3, h |-> 3, px |-> Pixels(<<0,1,2, 0,1,2, 0,1,2>>)]
NestedMaxima ==
    [w |-> 4, h |-> 4, px |-> Pixels(<<0,0,0,0, 0,5,5,0, 0,5,9,0, 0,0,0,0>>)]
TwoPeaks ==
    [w |-> 4, h |-> 4, px |-> Pixels(<<0,0,0,0, 0,3,0,0, 0,0,7,0, 0,0,0,0>>)]
\* Two dual pixels with a saddle, one above the other: the pixel (1,0) is a
\* corner of the upper one only.
StackedSaddles ==
    [w |-> 2, h |-> 3, px |-> Pixels(<<2,1, 0,2, 1,0>>)]
Scenarios ==
    {Constant5, SingleMax, Checkerboard, Ramp, NestedMaxima, TwoPeaks,
     StackedSaddles}

\* Two images whose saddle value 40160/411 lies less than one float rounding
\* step above its quantized level 50029/512: between two minima, and
\* between two maxima.
SaddleBetweenMinima ==
    [w |-> 4, h |-> 4,
     px |-> Pixels(<<255,255,255,255, 255,0,160,255,
                     255,251,0,255, 255,255,255,255>>)]
SaddleBetweenMaxima ==
    [w |-> 4, h |-> 4,
     px |-> Pixels(<<0,0,0,0, 0,0,160,0, 0,251,0,0, 0,0,0,0>>)]

\* An image whose saddle value 63252/475 is rounded as a float to
\* 68179/512, above the value.
SaddleRoundedUp ==
    [w |-> 4, h |-> 4,
     px |-> Pixels(<<0,0,0,0, 0,0,251,0, 0,252,28,0, 0,0,0,0>>)]

\* Every image of the given size with pixel values in 0..m.
ImagesOfSize(ww, hh, m) ==
    {[w |-> ww, h |-> hh, px |-> f] : f \in [0..(ww * hh - 1) -> 0..m]}

\* The images given to pmbil.
PersistenceImages ==
    Scenarios \cup ImagesOfSize(2, 2, MaxLevel)
              \cup ImagesOfSize(5, 1, MaxLevel)
              \cup ImagesOfSize(3, 2, MaxLevel - 2)
              \cup ImagesOfSize(3, 3, 1)

\* Images for persistence() called on any float image: small images with
\* values around the sentinel -1 of fill_virtual_samples.
ImagesBetween(ww, hh, lo, hi) ==
    {[w |-> ww, h |-> hh, px |-> f] : f \in [0..(ww * hh - 1) -> lo..hi]}
AnyValueImages == ImagesBetween(2, 2, -2, 1) \cup ImagesBetween(3, 1, -2, 1)

(***************************************************************************)
(* pmbil: main calls persistence on the image, then on 255 - image.        *)
(***************************************************************************)
PInitOn(images) ==
    /\ \E img \in images :
          /\ w = img.w
          /\ h = img.h
          /\ input = img.px
    /\ pc = "persistence"
    /\ run = "min"
    /\ fim = <<>>
    /\ orderedPos = <<>>
    /\ p = 0
    /\ par = <<>>
    /\ zpar = <<>>
    /\ index = <<>>
    /\ tree = <<>>
    /\ treeRoot = 0
    /\ pm_min = <<>>
    /\ pm_max = <<>>
    /\ im = <<>>
    /\ visit = <<>>
    /\ ll = <<>>
    /\ inter = <<>>
    /\ vu = <<>>
    /\ scan = <<0, 0>>
    /\ V = <<>>
    /\ it = 0
    /\ plateau = <<>>
    /\ S = <<>>
    /\ edge = 0
    /\ line = <<>>
    /\ dual = <<>>
    /\ pt = <<>>
    /\ lineLevel = 0
    /\ start = <<>>
    /\ caller = ""
    /\ ptsPixel = 0
    /\ arg = <<>>
    /\ res = <<>>

PInit == PInitOn(PersistenceImages)

\* persistence() called on an image of any values.
PInitAnyValue == PInitOn(AnyValueImages)

\* persistence(): copy of the input and fill_virtual_samples.
FillVirtualSamples ==
    /\ pc = "persistence"
    /\ fim' = fill_virtual_samples(input)
    /\ pc' = "sort"
    /\ UNCHANGED evars
    /\ UNCHANGED <<w, h, input, run, orderedPos, p, par, zpar, index, tree,
                   treeRoot, pm_min, pm_max>>

\* persistence(): the sorted samples, the first processed one, and the
\* arrays par and zpar of default-constructed samples.
SortStage ==
    /\ pc = "sort"
    /\ orderedPos' = SortSamples(fim)
    /\ p' = UpperBound(fim, orderedPos')
    /\ par' = [k \in 0..(2 * w * h - 1) |-> NoSample]
    /\ zpar' = [k \in 0..(2 * w * h - 1) |-> NoSample]
    /\ pc' = "merge"
    /\ UNCHANGED evars
    /\ UNCHANGED <<w, h, input, run, fim, index, tree, treeRoot, pm_min,
                   pm_max>>

\* persistence(): one iteration of the merge loop.
MergeStep ==
    /\ pc = "merge"
    /\ p # 2 * w * h
    /\ LET st == MergeSample(orderedPos[p], par, zpar)
       IN  /\ par' = st.par
           /\ zpar' = st.zpar
    /\ p' = p + 1
    /\ UNCHANGED evars
    /\ UNCHANGED <<w, h, pc, input, run, fim, orderedPos, index, tree,
                   treeRoot, pm_min, pm_max>>

\* persistence(): end of the merge loop, zpar is deleted, make_canonical.
MakeCanonical ==
    /\ pc = "merge"
    /\ p = 2 * w * h
    /\ zpar' = <<>>
    /\ par' = make_canonical(fim, par, orderedPos, 2 * w * h - 1)
    /\ pc' = "compute_tree"
    /\ UNCHANGED evars
    /\ UNCHANGED <<w, h, input, run, fim, orderedPos, p, index, tree,
                   treeRoot, pm_min, pm_max>>

\* compute_tree up to the calls of the contrast passes.  With no canonical
\* sample the tree is empty and fill_contrast_uptree binds tree[0] of an
\* empty vector: the behaviour is undefined.
ComputeTree ==
    /\ pc = "compute_tree"
    /\ LET e == EnumerateNodes(fim, par)
           st == FillChildren(par, [index |-> e.index, tree |-> e.tree,
                                    root |-> 0], -1)
       IN  /\ index' = st.index
           /\ tree' = st.tree
           /\ treeRoot' = st.root
    /\ orderedPos' = <<>>
    /\ pc' = IF DOMAIN tree' = {} THEN "undefined" ELSE "uptree"
    /\ UNCHANGED evars
    /\ UNCHANGED <<w, h, input, run, fim, p, par, zpar, pm_min, pm_max>>

FillContrastUptree ==
    /\ pc = "uptree"
    /\ tree' = fill_contrast_uptree(tree, treeRoot)
    /\ pc' = "downtree"
    /\ UNCHANGED evars
    /\ UNCHANGED <<w, h, input, run, fim, orderedPos, p, par, zpar, index,
                   treeRoot, pm_min, pm_max>>

FillContrastDowntree ==
    /\ pc = "downtree"
    /\ tree' = fill_contrast_downtree(tree, treeRoot)
    /\ pc' = "fill_persistence"
    /\ UNCHANGED evars
    /\ UNCHANGED <<w, h, input, run, fim, orderedPos, p, par, zpar, index,
                   treeRoot, pm_min, pm_max>>

\* fill_persistence into the output of the current call, and return to main.
\* When index.at() throws, the pixels from that one on are not written and
\* the exception leaves persistence() and main.
FillPersistence ==
    /\ pc = "fill_persistence"
    /\ LET all == fill_persistence(fim, par, tree, index)
           thrown == {k \in DOMAIN all : all[k] = Thrown}
           out == [k \in DOMAIN all |->
                      IF \E j \in thrown : j <= k THEN Thrown ELSE all[k]]
           next == IF thrown # {} THEN "thrown"
                   ELSE IF run = "min" THEN "complement" ELSE "done"
       IN  IF run = "min"
           THEN pm_min' = out /\ pm_max' = pm_max /\ pc' = next
           ELSE pm_max' = out /\ pm_min' = pm_min /\ pc' = next
    /\ UNCHANGED evars
    /\ UNCHANGED <<w, h, input, run, fim, orderedPos, p, par, zpar, index,
                   tree, treeRoot>>

\* main: im[i] = 255 - im[i], then the second call of persistence.
Complement ==
    /\ pc = "complement"
    /\ input' = [k \in DOMAIN input |-> 255 - input[k]]
    /\ run' = "max"
    /\ pc' = "persistence"
    /\ UNCHANGED evars
    /\ UNCHANGED <<w, h, fim, orderedPos, p, par, zpar, index, tree,
                   treeRoot, pm_min, pm_max>>

PNext ==
    \/ FillVirtualSamples
    \/ SortStage
    \/ MergeStep
    \/ MakeCanonical
    \/ ComputeTree
    \/ FillContrastUptree
    \/ FillContrastDowntree
    \/ FillPersistence
    \/ Complement

SpecPersistence == PInit /\ [][PNext]_vars
SpecAnyValue == PInitAnyValue /\ [][PNext]_vars


(***************************************************************************)
(* Properties of the persistence map.                                      *)
(***************************************************************************)
RLe(a, b) == ~RLt(b, a)

\* max(image) - min(image) of the image main holds; 255 - image has the
\* same range.
InputMax == CHOOSE v \in {input[k] : k \in DOMAIN input} :
                \A k \in DOMAIN input : input[k] <= v
InputMin == CHOOSE v \in {input[k] : k \in DOMAIN input} :
                \A k \in DOMAIN input : v <= input[k]
Range == RInt(InputMax - InputMin)

\* A value written to an output map lies in [0, max - min].
InRange(v) == v[2] > 0 /\ RLe(RInt(0), v) /\ RLe(v, Range)

\* main holds the complement of the image img (second call and after).
HoldsComplementOf(img) ==
    /\ w = img.w
    /\ h = img.h
    /\ input = [k \in DOMAIN img.px |-> 255 - img.px[k]]

\* C2: every value written by persistence is in [0, max(image) - min(image)]
\* (so a constant image gives 0 at every pixel), in the map of the first
\* call and in the map of the second one.
C2_PersistenceBounds ==
    /\ \A k \in DOMAIN pm_min : InRange(pm_min[k])
    /\ \A k \in DOMAIN pm_max : InRange(pm_max[k])

\* C2 witness: both maps are written and one value is strictly inside the
\* bounds, on an image that is not constant.
C2_Witness ==
    /\ pc = "done"
    /\ \E k \in DOMAIN pm_min :
          RLt(RInt(0), pm_min[k]) /\ RLt(pm_min[k], Range)

\* C3 (as claimed): on the 4x4 image with peaks 3 and 7 the map for maxima
\* is 3 at the lower peak, pixel (1,1), and 7 at the higher one, (2,2).
C3_TwoPeaksAsClaimed ==
    (pc = "done" /\ HoldsComplementOf(TwoPeaks))
        => (pm_max[5] = RInt(3) /\ pm_max[10] = RInt(7))

\* C4 (as claimed): on [0,0,0, 0,9,0, 0,0,0] the map for maxima is 9 at the
\* centre and 0 at every other pixel.
C4_SingleMaxAsClaimed ==
    (pc = "done" /\ HoldsComplementOf(SingleMax))
        => \A k \in DOMAIN pm_max :
              pm_max[k] = IF k = 4 THEN RInt(9) ELSE RInt(0)

\* C4 (amended): on [0,0,0, 0,9,0, 0,0,0] the map for maxima is 9 at the
\* centre and also 9 at every other pixel.
C4_SingleMaxAmended ==
    (pc = "done" /\ HoldsComplementOf(SingleMax))
        => \A k \in DOMAIN pm_max : pm_max[k] = RInt(9)

C4_Witness ==
    pc = "done" /\ HoldsComplementOf(SingleMax) /\ DOMAIN pm_max = 0..8

\* The nodes whose contrast is the full dynamic range.
FullRangeNodes == {n \in DOMAIN tree : tree[n].contrast = Range}
AfterContrastPasses == pc = "fill_persistence"

\* C5 (as claimed): after the two passes exactly one node has contrast
\* max(image) - min(image).
C5_ExactlyOneAsClaimed ==
    AfterContrastPasses => Cardinality(FullRangeNodes) = 1

\* C5 (amended): after the two passes the root has contrast
\* max(image) - min(image), no node has a larger contrast, and the root is
\* the only such node exactly when the image is constant.
C5_RootFullRange ==
    AfterContrastPasses =>
        /\ treeRoot \in FullRangeNodes
        /\ \A n \in DOMAIN tree : RLe(tree[n].contrast, Range)
        /\ (Cardinality(FullRangeNodes) = 1) <=> (InputMax = InputMin)

C5_Witness ==
    AfterContrastPasses /\ Cardinality(FullRangeNodes) >= 3
        /\ Cardinality(DOMAIN tree) > Cardinality(FullRangeNodes)

\* The processed samples (their slot of par holds a sample).
Processed == {s \in AllSamples : par[idx(s)].x >= 0}
Parent(s) == par[idx(s)]
AfterStage4 == pc = "compute_tree" /\ run = "min"

\* C6 (as claimed): after make_canonical every step from a processed sample
\* to its parent goes to a strictly greater level.
C6_StrictChainAsClaimed ==
    AfterStage4 =>
        \A s \in Processed :
            Parent(s) # s => RLt(fim[idx(s)], fim[idx(Parent(s))])

\* C6 (amended): after make_canonical the first step of the chain from a
\* processed sample goes to a greater or equal level, equal exactly when the
\* sample is not canonical, and every later step goes to a strictly greater
\* level (the parent of a sample is the root or is strictly below its own
\* parent).
C6_ChainAmended ==
    AfterStage4 =>
        \A s \in Processed :
            LET q == Parent(s)
            IN  /\ q \in Processed
                /\ RLe(fim[idx(s)], fim[idx(q)])
                /\ (fim[idx(s)] = fim[idx(q)] /\ q # s)
                      <=> ~is_canonical(s, fim, par)
                /\ Parent(q) # q => RLt(fim[idx(q)], fim[idx(Parent(q))])

\* C6 witness: a chain of three samples whose first step stays on a plateau
\* and whose second step rises.
C6_Witness ==
    /\ AfterStage4
    /\ \E s \in Processed :
          /\ Parent(s) # s
          /\ fim[idx(s)] = fim[idx(Parent(s))]
          /\ Parent(Parent(s)) # Parent(s)


(***************************************************************************)
(* levelLine.cpp: levels, points and the mobile dual pixel.                *)
(*                                                                         *)
(* A level l is held as the integer l * QLEVEL: the levels of the lines    *)
(* are multiples of DELTA_LEVEL = 1/QLEVEL.  The float product of move and  *)
(* the float quotient of level_saddle are rounded to 24 bits (FloatRound,  *)
(* FloatQuotient); coordinates are exact rationals.                        *)
(***************************************************************************)
QLEVEL == 512

\* The directions S, E, N, W of entry in a dual pixel are 0, 1, 2, 3.
DirS == 0
DirN == 2

\* delta[]: the vectors of the four directions, and S again.
delta == <<(<<0, 1>>), (<<1, 0>>), (<<0, -1>>), (<<-1, 0>>), (<<0, 1>>)>>

\* l > u and l < u for a level l and a pixel value u.
LevelAbove(l, u) == l > QLEVEL * u
LevelBelow(l, u) == l < QLEVEL * u

\* The first j binary digits of the fraction r/d, 0 <= r < d, as an integer,
\* and what remains: bits = floor(2^j * r / d), rem = (2^j * r) % d.
RECURSIVE FracBits(_, _, _)
FracBits(r, d, j) ==
    IF j = 0 THEN [bits |-> 0, rem |-> r]
    ELSE LET fb == FracBits(r, d, j - 1)
         IN  IF 2 * fb.rem >= d
             THEN [bits |-> 2 * fb.bits + 1, rem |-> 2 * fb.rem - d]
             ELSE [bits |-> 2 * fb.bits, rem |-> 2 * fb.rem]

RECURSIVE BitLength(_)
BitLength(n) == IF n = 0 THEN 0 ELSE 1 + BitLength(n \div 2)

RECURSIVE Pow2(_)
Pow2(j) == IF j = 0 THEN 1 ELSE 2 * Pow2(j - 1)

\* The zero digits that start the binary fraction r/d, 0 < r < d.
RECURSIVE LeadingZeros(_, _)
LeadingZeros(r, d) == IF 2 * r >= d THEN 0 ELSE 1 + LeadingZeros(2 * r, d)

\* pt_t is float: FloatDigits significant binary digits.
FloatDigits == 24

\* The float quotient n / pt_t(d) of two integers, d # 0: the fraction with
\* FloatDigits significant binary digits nearest to n/d, ties to the even
\* one.
FloatQuotient(n, d) ==
    LET ip == Abs(n) \div Abs(d)
        r == Abs(n) % Abs(d)
        j == IF ip > 0 THEN FloatDigits - BitLength(ip)
             ELSE FloatDigits + LeadingZeros(r, Abs(d))
        fb == FracBits(r, Abs(d), j)
        up == 2 * fb.rem > Abs(d) \/ (2 * fb.rem = Abs(d) /\ fb.bits % 2 = 1)
        m == IF r = 0 THEN RInt(ip)
             ELSE Rat(ip * Pow2(j) + fb.bits + (IF up THEN 1 ELSE 0), Pow2(j))
    IN  IF (n < 0) = (d < 0) THEN m ELSE <<-m[1], m[2]>>

\* Comparison of two floats given as fractions whose denominators are powers
\* of two: the integral parts first, then the fractions on the larger
\* denominator.
FloatLt(a, b) ==
    LET ia == a[1] \div a[2]
        ib == b[1] \div b[2]
        fa == a[1] % a[2]
        fb == b[1] % b[2]
    IN  IF ia # ib THEN ia < ib
        ELSE IF a[2] >= b[2] THEN fa < fb * (a[2] \div b[2])
        ELSE fa * (b[2] \div a[2]) < fb

\* QLEVEL = 1 << QBITS.
QBITS == 9

\* A variant of qlevel without the clamp of the fraction.
qlevelUnclamped(val) ==
    QLEVEL * (val[1] \div val[2])
        + FracBits(val[1] % val[2], val[2], QBITS).bits

\* qlevel(): the quantized level of the saddle value val = <<num, den>>, in
\* units of 1 / QLEVEL.  modf, the product by QLEVEL and floor are exact.
qlevel(val) ==
    LET intpart == val[1] \div val[2]
        s0 == FracBits(val[1] % val[2], val[2], QBITS).bits
        s1 == IF QLEVEL - 2 < s0 THEN QLEVEL - 2 ELSE s0
        s == IF s1 < 2 THEN 2 ELSE s1
    IN  QLEVEL * intpart + s

\* linear(): the abscissa of level l on the segment from (0,v0) to (1,v1).
linear(v0, l, v1) == Rat(l - QLEVEL * v0, QLEVEL * (v1 - v0))

\* A Point with integer coordinates, and p + f*d for a vector d.
PointOf(x, y) == <<RInt(x), RInt(y)>>
PointPlus(q, f, d) ==
    <<RAdd(q[1], RMul(f, RInt(d[1]))), RAdd(q[2], RMul(f, RInt(d[2])))>>

\* (size_t) of a coordinate that is not negative.
Trunc(r) == r[1] \div r[2]

\* DualPixel::update_levels for the top-left vertex pos = <<x, y>>.
update_levels(pos) ==
    LET ind == pos[2] * w + pos[1]
    IN  [k \in 0..3 |-> IF k = 0 THEN im[ind]
                        ELSE IF k = 3 THEN im[ind + 1]
                        ELSE IF k = 1 THEN im[ind + w]
                        ELSE im[ind + w + 1]]

\* Whether update_levels reads inside the array of w*h pixels for the
\* top-left vertex pos: the coordinates convert to size_t and the four
\* indices ind, ind+1, ind+w, ind+w+1 are below w*h.
Readable(pos) ==
    /\ pos[1] >= 0
    /\ pos[2] >= 0
    /\ pos[2] * w + pos[1] + w + 1 < w * h

\* Whether the constructor of DualPixel reads inside the array: at q0, and
\* at the vertex above when the direction of entry is turned to N.
ConstructorReadable(q0, l) ==
    /\ Readable(q0)
    /\ (LevelBelow(l, im[q0[2] * w + q0[1]])
            /\ LevelAbove(l, im[q0[2] * w + q0[1] + 1]))
          => Readable(<<q0[1], q0[2] - 1>>)

\* A variant of DualPixel that never turns the direction of entry to N.
DualPixelAlwaysSouth(q0, l) ==
    LET lev == update_levels(q0)
    IN  [dual |-> [pos |-> q0, d |-> DirS, level |-> lev],
         p |-> PointPlus(PointOf(q0[1], q0[2]),
                         linear(lev[DirS], l, lev[(DirS + 3) % 4]),
                         delta[DirS + 2])]

\* DualPixel::DualPixel: the dual pixel below the edgel from q0 to q0+(1,0)
\* entered southwards, or the one above entered northwards; and the start
\* point of the line on that edgel.
DualPixel(q0, l) ==
    LET lev0 == update_levels(q0)
        flip == LevelBelow(l, lev0[DirS]) /\ LevelAbove(l, lev0[(DirS + 3) % 4])
        d == IF flip THEN DirN ELSE DirS
        pos == IF flip THEN <<q0[1], q0[2] - 1>> ELSE q0
        q == IF flip THEN <<q0[1] + 1, q0[2]>> ELSE q0
        lev == update_levels(pos)
    IN  [dual |-> [pos |-> pos, d |-> d, level |-> lev],
         p |-> PointPlus(PointOf(q[1], q[2]),
                         linear(lev[d], l, lev[(d + 3) % 4]), delta[d + 2])]

\* Hyperbola::Hyperbola: num and denom of the saddle value, denom made
\* positive when it is not 0.
Hyperbola(level) ==
    LET num == level[0] * level[2] - level[1] * level[3]
        denom == (level[0] + level[2]) - (level[1] + level[3])
    IN  IF denom < 0 THEN [num |-> -num, denom |-> -denom]
        ELSE [num |-> num, denom |-> denom]

\* pt_t is float: a value with more than 24 significant bits is rounded to
\* the nearest one that has 24, ties to the even one.  Ulp(n) is the spacing
\* of the floats around the integer n.
FloatBits == 16777216

RECURSIVE Ulp(_)
Ulp(n) == IF n < FloatBits THEN 1 ELSE 2 * Ulp(n \div 2)

\* The float nearest to n / QLEVEL, in units of 1 / QLEVEL (a power of two,
\* so that the scaling changes no mantissa).
FloatRound(n) ==
    LET m == Abs(n)
        u == Ulp(m)
        q == m \div u
        r == m % u
        near == IF 2 * r < u \/ (2 * r = u /\ q % 2 = 0) THEN q * u
                ELSE (q + 1) * u
    IN  IF n < 0 THEN -near ELSE near

\* A variant of Turn: the walker always goes straight on.
TurnStraight(dp, l, snum, sdenom) == dp.d

\* The direction DualPixel::move turns to.  The product l*sdenom is a float
\* and is rounded before it is compared with snum.
Turn(dp, l, snum, sdenom) ==
    LET left0 == LevelAbove(l, dp.level[(dp.d + 2) % 4])
        right0 == LevelBelow(l, dp.level[(dp.d + 1) % 4])
        right == IF left0 /\ right0
                 THEN FloatRound(l * sdenom) < QLEVEL * snum
                 ELSE right0
        left == IF left0 /\ right0 THEN ~right ELSE left0
        d1 == IF left THEN (dp.d + 1) % 4 ELSE dp.d
    IN  IF right THEN (d1 + 3) % 4 ELSE d1

\* The vertex of the dual pixel at pos where the entry edgel of direction d
\* starts: pos + delta[0] + ... + delta[d-1].
RECURSIVE EntryVertex(_, _)
EntryVertex(pos, d) ==
    IF d = 0 THEN pos
    ELSE LET q == EntryVertex(pos, d - 1)
         IN  <<q[1] + delta[d][1], q[2] + delta[d][2]>>

\* The top-left vertex DualPixel::move goes to.
MoveTarget(dp, l, snum, sdenom) ==
    LET d == Turn(dp, l, snum, sdenom)
    IN  <<dp.pos[1] + delta[d + 1][1], dp.pos[2] + delta[d + 1][2]>>

\* DualPixel::move: the adjacent dual pixel and the entry point in it.
move(dp, l, snum, sdenom) ==
    LET d == Turn(dp, l, snum, sdenom)
        pos == <<dp.pos[1] + delta[d + 1][1], dp.pos[2] + delta[d + 1][2]>>
        lev == update_levels(pos)
        coord == linear(lev[d], l, lev[(d + 3) % 4])
        q == EntryVertex(pos, d)
    IN  [dual |-> [pos |-> pos, d |-> d, level |-> lev],
         p |-> PointPlus(PointOf(q[1], q[2]), coord, delta[d + 2])]

\* The assertion of DualPixel::follow.
FollowAssertion(dp, l) ==
    LevelAbove(l, dp.level[dp.d]) /\ LevelBelow(l, dp.level[(dp.d + 3) % 4])

\* DualPixel::follow with ptsPixel <= 0: no point is sampled inside the
\* dual pixel, the walker moves to the exit point.
follow(dp, l) ==
    LET hyp == Hyperbola(dp.level) IN move(dp, l, hyp.num, hyp.denom)

\* Whether the move of follow reads inside the array.
FollowReadable(dp, l) ==
    LET hyp == Hyperbola(dp.level)
    IN  Readable(MoveTarget(dp, l, hyp.num, hyp.denom))

\* A variant of VisitIndex that forgets the row of an entry northwards.
VisitIndexSouthOnly(dp) == dp.pos[2] * w + dp.pos[1]

\* The index in visit of the horizontal edgel by which dp was entered.
VisitIndex(dp) ==
    dp.pos[2] * w + dp.pos[1] + (IF dp.d = DirN THEN w ELSE 0)

Vertical(dp) == dp.d = DirS \/ dp.d = DirN

\* A variant of mark_visit that logs the closing step too.
mark_visit_log_closing(dp, vis, log, lineIdx, q) ==
    LET i == dp.pos[2] * w + dp.pos[1] + (IF dp.d = DirN THEN w ELSE 0)
        vert == dp.d = DirS \/ dp.d = DirN
    IN  [cont |-> IF vert THEN ~vis[i] ELSE TRUE,
         visit |-> IF vert THEN [vis EXCEPT ![i] = TRUE] ELSE vis,
         inter |-> IF vert
                   THEN [log EXCEPT ![Trunc(q[2])] = Append(@, <<q[1], lineIdx>>)]
                   ELSE log]

\* DualPixel::mark_visit with a row log: [cont, visit, inter].
mark_visit(dp, vis, log, lineIdx, q) ==
    LET i == VisitIndex(dp)
        cont == IF Vertical(dp) THEN ~vis[i] ELSE TRUE
    IN  [cont |-> cont,
         visit |-> IF Vertical(dp) THEN [vis EXCEPT ![i] = TRUE] ELSE vis,
         inter |-> IF cont /\ Vertical(dp)
                   THEN [log EXCEPT ![Trunc(q[2])] = Append(@, <<q[1], lineIdx>>)]
                   ELSE log]


(***************************************************************************)
(* levelLine.cpp: extrema and saddles.                                     *)
(***************************************************************************)
\* The cell of the pixel q = <<x, y>> in the arrays of w*h elements.
Cell(q) == q[1] + q[2] * w

OnBorder(q) == q[1] = 0 \/ q[1] + 1 = w \/ q[2] = 0 \/ q[2] + 1 = h

\* A variant of VisitNeighbours that accepts a plateau that touches the
\* border of the image.
RECURSIVE VisitNeighboursIgnoreBorder(_, _, _, _, _)
VisitNeighboursIgnoreBorder(level, max, q0, i, st) ==
    IF i = 4 THEN st
    ELSE LET q == <<q0[1] + delta[i + 1][1], q0[2] + delta[i + 1][2]>>
             c == q[1] + q[2] * w
             border == q[1] = 0 \/ q[1] + 1 = w \/ q[2] = 0 \/ q[2] + 1 = h
             st1 == IF im[c] = level
                    THEN IF ~border /\ ~st.vu[c]
                         THEN [st EXCEPT !.vu[c] = TRUE,
                                         !.stack = Append(@, q)]
                         ELSE st
                    ELSE IF max # (im[c] < level)
                         THEN [st EXCEPT !.success = FALSE]
                         ELSE st
         IN  VisitNeighboursIgnoreBorder(level, max, q0, i + 1, st1)

\* find_extremum: the body of the loop on the four neighbours of q0, from
\* neighbour i on.  st = [vu, V, stack, success]; the top of the stack is the
\* last element.
RECURSIVE VisitNeighbours(_, _, _, _, _)
VisitNeighbours(level, max, q0, i, st) ==
    IF i = 4 THEN st
    ELSE LET q == <<q0[1] + delta[i + 1][1], q0[2] + delta[i + 1][2]>>
             c == Cell(q)
             st1 == IF im[c] = level
                    THEN IF OnBorder(q) THEN [st EXCEPT !.success = FALSE]
                         ELSE IF ~st.vu[c]
                              THEN [st EXCEPT !.vu[c] = TRUE,
                                              !.stack = Append(@, q)]
                              ELSE st
                    ELSE IF max # (im[c] < level)
                         THEN [st EXCEPT !.success = FALSE]
                         ELSE st
         IN  VisitNeighbours(level, max, q0, i + 1, st1)

\* find_extremum: the loop that empties the stack.
RECURSIVE ExploreStack(_, _, _)
ExploreStack(level, max, st) ==
    IF st.stack = <<>> THEN st
    ELSE LET q0 == st.stack[Len(st.stack)]
             st1 == [st EXCEPT !.stack = SubSeq(@, 1, Len(@) - 1),
                               !.V = Append(@, q0)]
         IN  ExploreStack(level, max, VisitNeighbours(level, max, q0, 0, st1))

\* find_extremum(im, w, h, x, y, max, vu, V): [vu, V, stack, success].
find_extremum(x, y, max, vu0) ==
    ExploreStack(im[x + y * w], max,
                 [vu |-> [vu0 EXCEPT ![x + y * w] = TRUE], V |-> <<>>,
                  stack |-> <<(<<x, y>>)>>, success |-> TRUE])

\* A variant of NextScan that leaves the row after one pixel.
NextScanRowOnly(sc) == <<1, sc[2] + 1>>

\* handle_extrema's two loops: the first position, the position after
\* <<x, y>>, and the end of the outer loop.
FirstScan == IF 2 < w THEN <<1, 1>> ELSE <<1, h>>
NextScan(sc) == IF sc[1] + 2 < w THEN <<sc[1] + 1, sc[2]>> ELSE <<1, sc[2] + 1>>
ScanEnded(sc) == ~(sc[2] + 1 < h)

\* struct Saddle
Saddle(x0, y0, val) == [x |-> x0, y |-> y0, value |-> val]

\* level_saddle: [found, value] for the unit square of top-left corner (x,y).
level_saddle(x, y) ==
    IF x + 1 >= w \/ y + 1 >= h THEN [found |-> FALSE, value |-> <<0, 1>>]
    ELSE LET idx0 == x + w * y
             a == im[idx0]
             b == im[idx0 + 1]
             c == im[idx0 + w]
             d == im[idx0 + w + 1]
             min == IF a > d THEN d ELSE a
             max == IF a > d THEN a ELSE d
             sb == IF b < min THEN -1 ELSE IF b > max THEN 1 ELSE 0
             sc == IF c < min THEN -1 ELSE IF c > max THEN 1 ELSE 0
         IN  IF sb * sc <= 0 THEN [found |-> FALSE, value |-> <<0, 1>>]
             ELSE [found |-> TRUE,
                   value |-> FloatQuotient(a * d - b * c, a + d - b - c)]

\* find_saddles: the saddles in the order of the scan, rows then columns.
RECURSIVE FindFrom(_)
FindFrom(k) ==
    IF k = w * h THEN <<>>
    ELSE LET r == level_saddle(k % w, k \div w)
         IN  IF r.found THEN <<Saddle(k % w, k \div w, r.value)>> \o FindFrom(k + 1)
             ELSE FindFrom(k + 1)

find_saddles == FindFrom(0)

\* A variant of SortedSaddles that does not sort.
SaddlesInAnyOrder(sad) ==
    LET n == Len(sad)
        perms == {f \in [1..n -> 1..n] : \A i, j \in 1..n : i # j => f[i] # f[j]}
    IN  {[i \in 1..n |-> sad[f[i]]] : f \in perms}

\* std::sort with operator< of Saddle: any arrangement of the saddles with
\* values in ascending order; the order of equal values is not specified.
SortedSaddles(sad) ==
    LET n == Len(sad)
        perms == {f \in [1..n -> 1..n] : \A i, j \in 1..n : i # j => f[i] # f[j]}
    IN  {[i \in 1..n |-> sad[f[i]]] : f \in
            {g \in perms : \A i \in 1..n, j \in 1..n :
                              i < j => ~FloatLt(sad[g[j]].value, sad[g[i]].value)}}

\* class LevelLine: level, type and polygonal line.
LevelLine(l, t) == [level |-> l, type |-> t, line |-> <<>>]

AllFalse == [c \in 0..(w * h - 1) |-> FALSE]


(***************************************************************************)
(* reeb: main gives the border one value (fill_border) before the level    *)
(* lines are extracted.                                                    *)
(***************************************************************************)
\* The largest pixel value of the enumerated images given to extract.
MaxGray == 2

\* A variant of put_border that fills the first and the last row only.
put_border_rows(img, b) ==
    [img EXCEPT !.px = [k \in DOMAIN img.px |->
        IF k < img.w \/ k >= img.w * (img.h - 1) THEN b ELSE img.px[k]]]

\* put_border(im, w, h, v)
put_border(img, b) ==
    [img EXCEPT !.px = [k \in DOMAIN img.px |->
        IF k < img.w \/ k >= img.w * (img.h - 1)
           \/ k % img.w = 0 \/ k % img.w = img.w - 1
        THEN b ELSE img.px[k]]]

\* Every image of the given size with values in 0..m and border b.
BorderedImages(ww, hh, m) ==
    LET inner == {k \in 0..(ww * hh - 1) :
                     /\ k % ww \in 1..(ww - 2)
                     /\ k \div ww \in 1..(hh - 2)}
    IN  {put_border([w |-> ww, h |-> hh,
                     px |-> [k \in 0..(ww * hh - 1) |->
                                IF k \in inner THEN f[k] ELSE 0]], b) :
            f \in [inner -> 0..m], b \in 0..m}

\* The images given to extract: the scenarios of the specification that
\* have a constant border, and families of small images.
ExtractImages ==
    {Constant5, SingleMax, NestedMaxima, TwoPeaks,
     SaddleBetweenMinima, SaddleBetweenMaxima, SaddleRoundedUp}
        \cup BorderedImages(4, 4, MaxGray)
        \cup BorderedImages(5, 4, 2)
        \cup BorderedImages(5, 5, 1)

\* Images with a width or a height below 2.
DegenerateImages ==
    ImagesOfSize(1, 1, 0) \cup ImagesOfSize(1, 3, 0) \cup ImagesOfSize(3, 1, 0)

\* The calls of extract: an image and ptsPixel.  reeb passes z-1 >= 0; a
\* negative ptsPixel is given for a few images only.
ExtractCalls ==
    ((ExtractImages \cup DegenerateImages) \X {0})
        \cup (({SingleMax, TwoPeaks} \cup DegenerateImages) \X {-1})

\* Images of at least 3x3 with any border, for a caller of extract that
\* does not fill the border.
AnyBorderImages ==
    ImagesOfSize(3, 3, 1) \cup BorderedImages(4, 4, 1) \cup {TwoPeaks}

\* The state at the entry of a function called on one of the given images
\* (with ptsPixel) and one of the given arguments.
CallInit(calls, entry, args) ==
    /\ \E c \in calls :
          /\ w = c[1].w
          /\ h = c[1].h
          /\ im = c[1].px
          /\ ptsPixel = c[2]
    /\ pc = entry
    /\ arg \in args
    /\ input = <<>>
    /\ run = ""
    /\ fim = <<>>
    /\ orderedPos = <<>>
    /\ p = 0
    /\ par = <<>>
    /\ zpar = <<>>
    /\ index = <<>>
    /\ tree = <<>>
    /\ treeRoot = 0
    /\ pm_min = <<>>
    /\ pm_max = <<>>
    /\ visit = <<>>
    /\ ll = <<>>
    /\ inter = <<>>
    /\ vu = <<>>
    /\ scan = <<0, 0>>
    /\ V = <<>>
    /\ it = 0
    /\ plateau = <<>>
    /\ S = <<>>
    /\ edge = 0
    /\ line = <<>>
    /\ dual = <<>>
    /\ pt = <<>>
    /\ lineLevel = 0
    /\ start = <<>>
    /\ caller = ""
    /\ res = <<>>

\* The state at the call of extract for one of the given calls.
ExtractInit(calls) == CallInit(calls, "extract", {<<>>})

Init == ExtractInit(ExtractCalls)

InitAnyBorder == ExtractInit(AnyBorderImages \X {0})

\* extract(im, w, h, ...): visit and the row log are allocated, and
\* handle_extrema allocates vu and starts its scan.
Extract ==
    /\ pc = "extract"
    /\ visit' = AllFalse
    /\ inter' = [r \in 0..(h - 1) |-> <<>>]
    /\ vu' = AllFalse
    /\ scan' = FirstScan
    /\ pc' = "handle_extrema"
    /\ UNCHANGED <<w, h, ptsPixel, arg, res, pvars,
                   im, ll, V, it, plateau, S, edge, line, dual,
                   pt, lineLevel, start, caller>>

\* handle_extrema: one iteration of the loops on y and x, up to the loop on
\* the pixels of the plateau.
ExtremaScan ==
    /\ pc = "handle_extrema"
    /\ ~ScanEnded(scan)
    /\ LET k == Cell(scan)
           level == im[k]
           max == im[k + 1] < level
           r == find_extremum(scan[1], scan[2], max, vu)
       IN  IF vu[k] \/ im[k] = im[k + 1]
           THEN /\ scan' = NextScan(scan)
                /\ UNCHANGED <<vu, V, it, plateau, lineLevel, pc>>
           ELSE /\ vu' = r.vu
                /\ IF ~r.success
                   THEN /\ scan' = NextScan(scan)
                        /\ UNCHANGED <<V, it, plateau, lineLevel, pc>>
                   ELSE /\ V' = r.V
                        /\ it' = 0
                        /\ plateau' = [level |-> level, max |-> max]
                        /\ lineLevel' = IF max THEN QLEVEL * level - 1
                                        ELSE QLEVEL * level + 1
                        /\ pc' = "plateau"
                        /\ UNCHANGED scan
    /\ UNCHANGED <<w, h, ptsPixel, arg, res, pvars,
                   im, visit, ll, inter, S, edge, line, dual, pt,
                   start, caller>>

\* static extract(): construction of the DualPixel for the line of level l
\* and type t through the edgel from q0 to q0+(1,0).  A read outside the
\* array is undefined behaviour: the program is then in the state
\* "undefined", which stands for every outcome.
BeginTrace(q0, l, t, from) ==
    IF ConstructorReadable(q0, l)
    THEN LET c == DualPixel(q0, l)
         IN  /\ line' = LevelLine(l, t)
             /\ dual' = c.dual
             /\ pt' = c.p
             /\ start' = c.dual
             /\ caller' = from
             /\ pc' = "trace"
    ELSE /\ pc' = "undefined"
         /\ UNCHANGED <<line, dual, pt, start, caller>>

\* handle_extrema: one pixel of the plateau; a line starts at its edgel if
\* the right neighbour is not in the plateau and the edgel is not visited.
ExtremaEdgel ==
    /\ pc = "plateau"
    /\ it < Len(V)
    /\ LET q0 == V[it + 1]
           idx2 == Cell(q0)
       IN  IF im[idx2 + 1] # plateau.level /\ ~visit[idx2]
           THEN /\ BeginTrace(q0, lineLevel,
                              IF plateau.max THEN "MAX" ELSE "MIN", "extrema")
                /\ UNCHANGED it
           ELSE /\ it' = it + 1
                /\ UNCHANGED <<line, dual, pt, start, caller, pc>>
    /\ UNCHANGED <<w, h, ptsPixel, arg, res, pvars,
                   im, visit, ll, inter, vu, scan, V, plateau, S,
                   edge, lineLevel>>

\* handle_extrema: after the last pixel of the plateau visit is cleared and
\* the scan goes on.
ExtremaPlateauDone ==
    /\ pc = "plateau"
    /\ it = Len(V)
    /\ visit' = AllFalse
    /\ scan' = NextScan(scan)
    /\ pc' = "handle_extrema"
    /\ UNCHANGED <<w, h, ptsPixel, arg, res, pvars,
                   im, ll, inter, vu, V, it, plateau, S, edge,
                   line, dual, pt, lineLevel, start, caller>>

\* handle_saddles: find_saddles and std::sort, after handle_extrema returns.
FindSaddles ==
    /\ pc = "handle_extrema"
    /\ ScanEnded(scan)
    /\ S' \in SortedSaddles(find_saddles)
    /\ it' = 0
    /\ pc' = "handle_saddles"
    /\ UNCHANGED <<w, h, ptsPixel, arg, res, pvars,
                   im, visit, ll, inter, vu, scan, V, plateau,
                   edge, line, dual, pt, lineLevel, start, caller>>

\* handle_saddles: the outer loop takes the quantized level of the next
\* saddle, or extract returns.
SaddleGroup ==
    /\ pc = "handle_saddles"
    /\ IF it = Len(S)
       THEN /\ pc' = "done"
            /\ UNCHANGED <<lineLevel, edge>>
       ELSE /\ lineLevel' = qlevel(S[it + 1].value)
            /\ edge' = 0
            /\ pc' = "group"
    /\ UNCHANGED <<w, h, ptsPixel, arg, res, pvars,
                   im, visit, ll, inter, vu, scan, V, it, plateau,
                   S, line, dual, pt, start, caller>>

\* A variant of NextEdgel that never tries the bottom edgel of a saddle.
NextEdgelTopOnly ==
    /\ edge' = 0
    /\ it' = it + 1
    /\ pc' = "group"

\* handle_saddles: the loop on i = 0, 1 moves on.
NextEdgel ==
    /\ edge' = IF edge = 0 THEN 1 ELSE 0
    /\ it' = IF edge = 0 THEN it ELSE it + 1
    /\ pc' = "group"

\* handle_saddles: one horizontal edgel of a saddle of the group; a line
\* starts there if the edgel is not visited.
SaddleEdgel ==
    /\ pc = "group"
    /\ it < Len(S)
    /\ qlevel(S[it + 1].value) = lineLevel
    /\ LET sad == S[it + 1]
       IN  IF ~visit[sad.x + (sad.y + edge) * w]
           THEN /\ BeginTrace(<<sad.x, sad.y + edge>>, lineLevel, "SADDLE",
                              "saddles")
                /\ UNCHANGED <<it, edge>>
           ELSE /\ NextEdgel
                /\ UNCHANGED <<line, dual, pt, start, caller>>
    /\ UNCHANGED <<w, h, ptsPixel, arg, res, pvars,
                   im, visit, ll, inter, vu, scan, V, plateau, S,
                   lineLevel>>

\* A variant of SaddleGroupDone that leaves visit as it is.
SaddleGroupDoneKeepVisit ==
    /\ pc = "group"
    /\ IF it = Len(S) THEN TRUE ELSE qlevel(S[it + 1].value) # lineLevel
    /\ visit' = visit
    /\ pc' = "handle_saddles"
    /\ UNCHANGED <<w, h, ptsPixel, arg, res, pvars,
                   im, ll, inter, vu, scan, V, it, plateau, S,
                   edge, line, dual, pt, lineLevel, start, caller>>

\* handle_saddles: after the last saddle of the group visit is cleared.
SaddleGroupDone ==
    /\ pc = "group"
    /\ IF it = Len(S) THEN TRUE ELSE qlevel(S[it + 1].value) # lineLevel
    /\ visit' = AllFalse
    /\ pc' = "handle_saddles"
    /\ UNCHANGED <<w, h, ptsPixel, arg, res, pvars,
                   im, ll, inter, vu, scan, V, it, plateau, S,
                   edge, line, dual, pt, lineLevel, start, caller>>

\* static extract(): one turn of the loop that goes on: the point is
\* pushed, the edgel marked and logged, and the dual pixel follows the line.
\* A failed assertion of follow aborts the program; a move that reads
\* outside the array is undefined behaviour.
TraceStep ==
    /\ pc = "trace"
    /\ LET m == mark_visit(dual, visit, inter, Len(ll), pt)
       IN  /\ m.cont
           /\ line' = [line EXCEPT !.line = Append(@, pt)]
           /\ visit' = m.visit
           /\ inter' = m.inter
           /\ IF ~FollowAssertion(dual, line.level)
              THEN /\ pc' = "abort"
                   /\ UNCHANGED <<dual, pt>>
              ELSE IF ~FollowReadable(dual, line.level)
              THEN /\ pc' = "undefined"
                   /\ UNCHANGED <<dual, pt>>
              ELSE /\ dual' = follow(dual, line.level).dual
                   /\ pt' = follow(dual, line.level).p
                   /\ UNCHANGED pc
    /\ UNCHANGED <<w, h, ptsPixel, arg, res, pvars,
                   im, ll, vu, scan, V, it, plateau, S, edge,
                   lineLevel, start, caller>>

\* static extract(): the last turn of the loop: the point is pushed, the
\* edgel is found visited, and the caller stores the line and moves on.
TraceClose ==
    /\ pc = "trace"
    /\ LET m == mark_visit(dual, visit, inter, Len(ll), pt)
       IN  /\ ~m.cont
           /\ visit' = m.visit
           /\ inter' = m.inter
    /\ line' = [line EXCEPT !.line = Append(@, pt)]
    /\ ll' = Append(ll, line')
    /\ IF caller = "extrema"
       THEN /\ it' = it + 1
            /\ pc' = "plateau"
            /\ UNCHANGED edge
       ELSE NextEdgel
    /\ UNCHANGED <<w, h, ptsPixel, arg, res, pvars,
                   im, vu, scan, V, plateau, S, dual, pt,
                   lineLevel, start, caller>>

Next ==
    \/ Extract
    \/ ExtremaScan
    \/ ExtremaEdgel
    \/ ExtremaPlateauDone
    \/ FindSaddles
    \/ SaddleGroup
    \/ SaddleEdgel
    \/ SaddleGroupDone
    \/ TraceStep
    \/ TraceClose

Spec == Init /\ [][Next]_vars

\* extract called on images whose border was not filled.
SpecAnyBorder == InitAnyBorder /\ [][Next]_vars

(***************************************************************************)
(* level_saddle, fill_virtual_samples, Hyperbola and qlevel as functions   *)
(* of one dual pixel and of one value.                                     *)
(***************************************************************************)

\* The largest pixel value of the dual pixels enumerated.
MaxPixel == 3

\* A dual pixel whose saddle value 3856/257 is less than two quantization
\* steps above an integer.
SaddleNearInteger == [w |-> 2, h |-> 2, px |-> Pixels(<<0,16, 241,0>>)]

\* The images of one dual pixel.
DualPixelImages ==
    ImagesOfSize(2, 2, MaxPixel)
        \cup {SaddleNearInteger,
              [w |-> 2, h |-> 2, px |-> Pixels(<<0,160, 251,0>>)],
              [w |-> 2, h |-> 2, px |-> Pixels(<<0,251, 252,28>>)]}

\* Values given to qlevel besides the saddle value: half steps of the
\* quantization around 0, 1 and 2, where the clamps act.
QlevelInputs ==
    {Rat(k, 2 * QLEVEL) :
        k \in (0..5) \cup ((2 * QLEVEL - 5)..(2 * QLEVEL + 5))
                \cup ((3 * QLEVEL - 2)..(3 * QLEVEL + 2))
                \cup ((4 * QLEVEL - 5)..(4 * QLEVEL))}

InitSaddle == CallInit(DualPixelImages \X {0}, "level_saddle", QlevelInputs)

\* A variant of LevelSaddle in which level_saddle reports a saddle only when
\* b and c are both above max(a, d).
LevelSaddleAboveOnly ==
    /\ pc = "level_saddle"
    /\ LET ls == level_saddle(0, 0)
           up == ls.found /\ im[1] > im[0]
       IN  res' = [found |-> up,
                   value |-> IF up THEN ls.value ELSE <<0, 1>>,
                   virtual |-> VirtualValue([k \in 0..3 |-> RInt(im[k])], 0, 0),
                   hyp |-> Hyperbola(update_levels(<<0, 0>>)),
                   level |-> -1,
                   other |-> -1]
    /\ pc' = "qlevel"
    /\ UNCHANGED <<w, h, ptsPixel, arg, pvars,
                   im, visit, ll, inter, vu, scan, V, it, plateau, S,
                   edge, line, dual, pt, lineLevel, start, caller>>

\* The dual pixel of top-left vertex (0,0) seen by level_saddle, by
\* fill_virtual_samples and by the constructor of Hyperbola.
LevelSaddle ==
    /\ pc = "level_saddle"
    /\ LET ls == level_saddle(0, 0)
       IN  res' = [found |-> ls.found,
                   value |-> ls.value,
                   virtual |-> VirtualValue([k \in 0..3 |-> RInt(im[k])], 0, 0),
                   hyp |-> Hyperbola(update_levels(<<0, 0>>)),
                   level |-> -1,
                   other |-> -1]
    /\ pc' = "qlevel"
    /\ UNCHANGED <<w, h, ptsPixel, arg, pvars,
                   im, visit, ll, inter, vu, scan, V, it, plateau, S,
                   edge, line, dual, pt, lineLevel, start, caller>>

\* qlevel applied to the saddle value, if there is one, and to arg.
Qlevel ==
    /\ pc = "qlevel"
    /\ res' = [res EXCEPT
                  !.level = IF res.found THEN qlevel(res.value) ELSE -1,
                  !.other = qlevel(arg)]
    /\ pc' = "done"
    /\ UNCHANGED <<w, h, ptsPixel, arg, pvars,
                   im, visit, ll, inter, vu, scan, V, it, plateau, S,
                   edge, line, dual, pt, lineLevel, start, caller>>

NextSaddle ==
    \/ LevelSaddle
    \/ Qlevel

SpecSaddle == InitSaddle /\ [][NextSaddle]_vars



(***************************************************************************)
(* Properties of the extracted level lines.                                *)
(***************************************************************************)
\* The points of a polyline that lie on a horizontal edgel: their ordinate
\* is an integer (no level is a pixel value, so no point is a vertex).
OnHorizontalEdgel(q) == q[2][2] = 1
EdgelOf(q) == <<Trunc(q[1]), q[2][1]>>

\* The points pushed by every turn of the trace but the last one.
Traversals(l) == SubSeq(l.line, 1, Len(l.line) - 1)

\* Whether the next turn of the trace goes on.
TraceContinues == mark_visit(dual, visit, inter, Len(ll), pt).cont

\* C1: every line that extract produces ends on the edgel on which it
\* started: when the trace stops, the dual pixel is the one the constructor
\* left (same position, same direction of entry) and the point is the first
\* point of the line; the last point of every stored line is its first.
C1_TraceCloses ==
    /\ \A i \in 1..Len(ll) :
          /\ Len(ll[i].line) >= 2
          /\ ll[i].line[Len(ll[i].line)] = ll[i].line[1]
    /\ (pc = "trace" /\ ~TraceContinues) =>
          /\ dual = start
          /\ Len(line.line) >= 1
          /\ pt = line.line[1]

\* C1 witness: a trace of several points is about to stop on its start.
C1_Witness ==
    /\ pc = "trace"
    /\ ~TraceContinues
    /\ Len(line.line) >= 4
    /\ dual = start

\* The abscissas logged in row r for the line of index i (0-based).
LoggedFor(r, i) ==
    LET Mine(e) == e[2] = i
        mine == SelectSeq(inter[r], Mine)
    IN  [k \in 1..Len(mine) |-> mine[k][1]]

\* The abscissas at which the points pts cross the edgels of row r.
CrossedIn(r, pts) ==
    LET InRow(q) == OnHorizontalEdgel(q) /\ q[2][1] = r
        mine == SelectSeq(pts, InRow)
    IN  [k \in 1..Len(mine) |-> mine[k][1]]

NoEdgelTwice(pts) ==
    \A j, k \in 1..Len(pts) :
        (j # k /\ OnHorizontalEdgel(pts[j]) /\ OnHorizontalEdgel(pts[k]))
            => EdgelOf(pts[j]) # EdgelOf(pts[k])

\* C8: in a line no horizontal edgel is traversed twice, the return to the
\* start edgel excepted; the log of every row holds, for the line, exactly
\* the abscissas of its traversals of that row, in order, the closing step
\* adding none; a stored line has an even number of entries in every row.
C8_EdgelsAndRowLog ==
    /\ \A i \in 1..Len(ll) :
          /\ NoEdgelTwice(Traversals(ll[i]))
          /\ \A r \in 0..(h - 1) :
                /\ LoggedFor(r, i - 1) = CrossedIn(r, Traversals(ll[i]))
                /\ Len(LoggedFor(r, i - 1)) % 2 = 0
    /\ pc = "trace" =>
          /\ NoEdgelTwice(line.line)
          /\ \A r \in 0..(h - 1) :
                LoggedFor(r, Len(ll)) = CrossedIn(r, line.line)

\* C8 witness: a stored line with four entries in one row.
C8_Witness ==
    \E i \in 1..Len(ll) : \E r \in 0..(h - 1) :
        /\ Len(LoggedFor(r, i - 1)) = 4
        /\ LoggedFor(r, i - 1) = CrossedIn(r, Traversals(ll[i]))

\* The 4-connected plateau of the pixel q: all the pixels of the image, the
\* border included, joined to q by pixels of the same value.
AllPixels == {<<x, y>> : x \in 0..(w - 1), y \in 0..(h - 1)}
Adjacent(q, n) ==
    \/ (q[1] = n[1] /\ Abs(q[2] - n[2]) = 1)
    \/ (q[2] = n[2] /\ Abs(q[1] - n[1]) = 1)

RECURSIVE GrowPlateau(_)
GrowPlateau(P) ==
    LET more == {n \in AllPixels \ P :
                    \E q \in P : Adjacent(q, n) /\ im[Cell(n)] = im[Cell(q)]}
    IN  IF more = {} THEN P ELSE GrowPlateau(P \cup more)

PlateauOf(q) == GrowPlateau({q})
Plateaus == {PlateauOf(q) : q \in AllPixels}
ValueOf(P) == im[Cell(CHOOSE q \in P : TRUE)]

NeighboursOutside(P) ==
    {n \in AllPixels \ P : \E q \in P : Adjacent(q, n)}

RegionalMax(P) ==
    /\ \A q \in P : ~OnBorder(q)
    /\ \A n \in NeighboursOutside(P) : im[Cell(n)] < ValueOf(P)

RegionalMin(P) ==
    /\ \A q \in P : ~OnBorder(q)
    /\ \A n \in NeighboursOutside(P) : im[Cell(n)] > ValueOf(P)

\* The lines of type t that start on an edgel at the right of a pixel of P.
LinesOf(P, t) ==
    {i \in 1..Len(ll) : ll[i].type = t /\ EdgelOf(ll[i].line[1]) \in P}

PointsOfLine(i) == {ll[i].line[k] : k \in 1..Len(ll[i].line)}

\* C9: when extract has returned, every plateau that is a regional maximum
\* (no pixel on the border, every neighbour outside strictly lower) has
\* Max lines, a regional minimum has Min lines, and no other plateau has
\* any; the lines are at the value of the plateau minus (plus) DELTA_LEVEL;
\* no line is emitted twice; a plateau of one pixel has exactly one line.
C9_ExtremaLines ==
    pc = "done" =>
        /\ \A P \in Plateaus :
              /\ (LinesOf(P, "MAX") # {}) <=> RegionalMax(P)
              /\ (LinesOf(P, "MIN") # {}) <=> RegionalMin(P)
              /\ \A i \in LinesOf(P, "MAX") :
                    ll[i].level = QLEVEL * ValueOf(P) - 1
              /\ \A i \in LinesOf(P, "MIN") :
                    ll[i].level = QLEVEL * ValueOf(P) + 1
              /\ Cardinality(P) = 1 =>
                    Cardinality(LinesOf(P, "MAX") \cup LinesOf(P, "MIN")) <= 1
        /\ \A i, j \in 1..Len(ll) :
              (i # j /\ ll[i].type # "SADDLE" /\ ll[j].type # "SADDLE")
                  => PointsOfLine(i) \cap PointsOfLine(j) = {}

\* C9 witness: extract has returned from the image of the single maximum
\* with its one Max line, at level 9 - DELTA_LEVEL.
C9_Witness ==
    /\ pc = "done"
    /\ im = SingleMax.px
    /\ Len(ll) = 1
    /\ ll[1].type = "MAX"
    /\ ll[1].level = QLEVEL * 9 - 1
    /\ RegionalMax(PlateauOf(<<1, 1>>))

\* C10 as stated: on the image of the nested maxima extract returns two Max
\* lines, one at 5 - DELTA_LEVEL and one at 9 - DELTA_LEVEL.
C10_TwoMaxLinesAsClaimed ==
    (pc = "done" /\ w = NestedMaxima.w /\ im = NestedMaxima.px) =>
        /\ Cardinality({i \in 1..Len(ll) : ll[i].type = "MAX"}) = 2
        /\ \E i \in 1..Len(ll) :
              ll[i].type = "MAX" /\ ll[i].level = QLEVEL * 5 - 1
        /\ \E i \in 1..Len(ll) :
              ll[i].type = "MAX" /\ ll[i].level = QLEVEL * 9 - 1

\* C10 amended: on the image of the nested maxima extract returns exactly
\* one line, a Max line at 9 - DELTA_LEVEL that starts at the right of the
\* pixel of value 9; there is no line at 5 - DELTA_LEVEL.
C10_NestedMaximaOneLine ==
    (pc = "done" /\ w = NestedMaxima.w /\ im = NestedMaxima.px) =>
        /\ Len(ll) = 1
        /\ ll[1].type = "MAX"
        /\ ll[1].level = QLEVEL * 9 - 1
        /\ EdgelOf(ll[1].line[1]) = <<2, 2>>

\* C10 witness: extract has returned from the image of the nested maxima,
\* having explored the plateau of value 5 and emitted a line.
C10_Witness ==
    /\ pc = "done"
    /\ w = NestedMaxima.w
    /\ im = NestedMaxima.px
    /\ vu[Cell(<<1, 1>>)]
    /\ Len(ll) = 1


\* The Saddle lines at the quantized level of the saddle sad that traverse
\* the horizontal edgel i (0: top, 1: bottom) of its dual pixel.
SaddleLinesThrough(sad, i) ==
    {k \in 1..Len(ll) :
        /\ ll[k].type = "SADDLE"
        /\ ll[k].level = qlevel(sad.value)
        /\ \E j \in 1..Len(ll[k].line) :
              /\ OnHorizontalEdgel(ll[k].line[j])
              /\ EdgelOf(ll[k].line[j]) = <<sad.x, sad.y + i>>}

SaddlesOfImage == {find_saddles[k] : k \in 1..Len(find_saddles)}

\* C7 as stated: when extract has returned, every dual pixel with a saddle
\* is traversed by exactly one Saddle line at its quantized level.
C7_ExactlyOneLineAsClaimed ==
    pc = "done" =>
        \A sad \in SaddlesOfImage :
            Cardinality(SaddleLinesThrough(sad, 0)
                            \cup SaddleLinesThrough(sad, 1)) = 1

\* C7 amended: when extract has returned, each of the two horizontal
\* edgels of every dual pixel with a saddle is traversed by exactly one
\* Saddle line at the quantized level of the saddle; the two edgels are on
\* one line or on two lines.
C7_OneLinePerEdgel ==
    pc = "done" =>
        \A sad \in SaddlesOfImage :
            /\ Cardinality(SaddleLinesThrough(sad, 0)) = 1
            /\ Cardinality(SaddleLinesThrough(sad, 1)) = 1

\* C7 witness: extract has returned and the two horizontal edgels of a
\* saddle are on two different Saddle lines.
C7_Witness ==
    /\ pc = "done"
    /\ \E sad \in SaddlesOfImage :
          /\ SaddleLinesThrough(sad, 0) # {}
          /\ SaddleLinesThrough(sad, 1) # {}
          /\ SaddleLinesThrough(sad, 0) # SaddleLinesThrough(sad, 1)


\* The calls that the specification says extract refuses.
InvalidCall == w < 2 \/ h < 2 \/ ptsPixel < 0 \/ w > 1024

\* C11 as stated: extract refuses an invalid call (a width or a height
\* below 2, a negative ptsPixel, a width above 1024): it never scans a
\* plateau nor traces, and no line is produced.
C11_RefusesAsClaimed ==
    InvalidCall => (ll = <<>> /\ pc \notin {"plateau", "trace", "group"})

SaddleLines == {i \in 1..Len(ll) : ll[i].type = "SADDLE"}

\* The first Saddle line of each quantization group.
GroupLeaders ==
    {i \in SaddleLines :
        \A j \in SaddleLines : j < i => ll[j].level < ll[i].level}

\* The order of types and levels in the list of lines.
ExtremaThenSaddlesByLevel ==
    \A i, j \in 1..Len(ll) :
        (i < j /\ ll[i].type = "SADDLE") =>
            (ll[j].type = "SADDLE" /\ ll[i].level <= ll[j].level)

\* The saddle that the scan of find_saddles meets first among those of
\* least value in the group of level l: the first of the group when the
\* sort keeps equal values in their order.
FirstInScan(l) ==
    LET grp == {k \in 1..Len(find_saddles) : qlevel(find_saddles[k].value) = l}
        least == {k \in grp : \A m \in grp :
                     ~FloatLt(find_saddles[m].value, find_saddles[k].value)}
    IN  find_saddles[CHOOSE k \in least : \A m \in least : k <= m]

\* The saddle that the sort put first in the group of level l.
FirstInSort(l) ==
    S[CHOOSE k \in 1..Len(S) :
          /\ qlevel(S[k].value) = l
          /\ \A m \in 1..(k - 1) : qlevel(S[m].value) # l]

\* C12 as stated: Min/Max lines precede Saddle lines, Saddle lines are by
\* non-decreasing level, and the list does not depend on the order the sort
\* gives to saddles of equal value: the first line of every group starts
\* where it starts when the sort keeps the order of the scan.
C12_DeterminedAsClaimed ==
    /\ ExtremaThenSaddlesByLevel
    /\ \A i \in GroupLeaders :
          LET sad == FirstInScan(ll[i].level)
          IN  EdgelOf(ll[i].line[1]) = <<sad.x, sad.y>>

\* C12 amended: Min/Max lines precede Saddle lines and Saddle lines are by
\* non-decreasing level; the first line of every group starts on the top
\* edgel of the saddle that the sort put first in the group, so the list
\* depends on the image and on the order given to saddles of equal value.
C12_OrderGivenSort ==
    /\ ExtremaThenSaddlesByLevel
    /\ \A i \in GroupLeaders :
          LET sad == FirstInSort(ll[i].level)
          IN  EdgelOf(ll[i].line[1]) = <<sad.x, sad.y>>

\* C12 witness: extract has returned an extremum line and Saddle lines of
\* two levels, from saddles that the sort did not leave in scan order.
C12_Witness ==
    /\ pc = "done"
    /\ \E i \in 1..Len(ll) : ll[i].type # "SADDLE"
    /\ Cardinality(GroupLeaders) >= 2
    /\ S # find_saddles


\* Whether the point q is strictly inside the edgel by which the dual pixel
\* dp was entered: the open segment from its entry vertex.
InsideEntryEdgel(q, dp) ==
    LET a == EntryVertex(dp.pos, dp.d)
        e == delta[dp.d + 2]
        Between(r, u, t) == \/ (RLt(RInt(u), r) /\ RLt(r, RInt(t)))
                            \/ (RLt(RInt(t), r) /\ RLt(r, RInt(u)))
    IN  IF e[2] = 0
        THEN q[2] = RInt(a[2]) /\ Between(q[1], a[1], a[1] + e[1])
        ELSE q[1] = RInt(a[1]) /\ Between(q[2], a[2], a[2] + e[2])

LeftExit(dp, l) == LevelAbove(l, dp.level[(dp.d + 2) % 4])
RightExit(dp, l) == LevelBelow(l, dp.level[(dp.d + 1) % 4])

\* The denominator a+d-b-c of the saddle value of a dual pixel, and the value
\* itself as an exact fraction (defined when the denominator is not zero).
SaddleDenom(level) == (level[0] + level[2]) - (level[1] + level[3])
SaddleValue(level) ==
    Rat(level[0] * level[2] - level[1] * level[3], SaddleDenom(level))

\* The direction the walker leaves with, decided on the exact saddle value.
ExactTurn(dp, l) ==
    IF LeftExit(dp, l) /\ RightExit(dp, l)
    THEN IF RLt(Rat(l, QLEVEL), SaddleValue(dp.level))
         THEN (dp.d + 3) % 4 ELSE (dp.d + 1) % 4
    ELSE IF LeftExit(dp, l) THEN (dp.d + 1) % 4
    ELSE IF RightExit(dp, l) THEN (dp.d + 3) % 4
    ELSE dp.d

\* A step of the trace in which follow moves the walker.
Moves == pc = "trace" /\ pc' = "trace"

\* C14: move turns left when the only exit is at the left, right when the
\* only exit is at the right, goes straight when there is neither; when
\* both exits exist the dual pixel has a saddle (a+d-b-c is not zero), the
\* denominator Hyperbola keeps is positive, and the walker turns right if
\* and only if l is strictly below the saddle value, left otherwise.
C14_TurnsAsClaimed ==
    [][Moves =>
         /\ (LeftExit(dual, line.level) /\ RightExit(dual, line.level)) =>
               /\ SaddleDenom(dual.level) # 0
               /\ Hyperbola(dual.level).denom > 0
         /\ dual'.d = ExactTurn(dual, line.level)]_vars

\* The number of edgels of the image: the sides shared by two pixels.
EdgelCount == (w - 1) * h + w * (h - 1)

\* C15: on an image of at least 3x3 pixels with constant border every trace
\* terminates: the loop never stops on a failed assertion or on a read
\* outside the image, it pushes fewer points than the image has edgels,
\* and it ends exactly when the walker stands on a horizontal edgel that
\* is already visited.
C15_TraceTerminates ==
    /\ pc \notin {"abort", "undefined"}
    /\ pc = "trace" =>
          /\ Len(line.line) < EdgelCount
          /\ ~TraceContinues <=> (Vertical(dual) /\ visit[VisitIndex(dual)])

\* C15 witness: a trace of a saddle line has stopped and the line of at
\* least six points is stored.
C15_Witness ==
    /\ pc = "group"
    /\ Len(ll) >= 1
    /\ ll[Len(ll)].type = "SADDLE"
    /\ Len(ll[Len(ll)].line) >= 6

\* The dual pixels of the image that touch its border.
BorderDualPixels ==
    {q \in (0..(w - 2)) \X (0..(h - 2)) :
        q[1] = 0 \/ q[2] = 0 \/ q[1] = w - 2 \/ q[2] = h - 2}

\* C16: on an image with constant border every dual pixel the walker reads
\* has its top-left vertex in [0,w-2] x [0,h-2], so that no pixel outside
\* the array is read, and no dual pixel touching the border has a saddle.
C16_WalkerStaysInside ==
    /\ pc # "undefined"
    /\ pc = "trace" =>
          /\ dual.pos[1] \in 0..(w - 2)
          /\ dual.pos[2] \in 0..(h - 2)
    /\ \A q \in BorderDualPixels : ~level_saddle(q[1], q[2]).found

\* C16 witness: the walker of a saddle line reads a dual pixel in the
\* corner of the image, whose four pixels are not all equal.
C16_Witness ==
    /\ pc = "trace"
    /\ line.type = "SADDLE"
    /\ dual.pos = <<w - 2, h - 2>>
    /\ \E k \in 1..3 : dual.level[k] # dual.level[0]

\* C17: on every image of at least 3x3 pixels, whatever its border, the
\* saddle lines are traced reading only pixels inside the array: once the
\* saddles are found no read goes outside.
C17_SaddleTracesReadInside == ~(pc = "undefined" /\ S # <<>>)

\* The loop of handle_saddles stands at a saddle of the current group.
AtSaddle ==
    /\ pc = "group"
    /\ it < Len(S)
    /\ IF it < Len(S) THEN qlevel(S[it + 1].value) = lineLevel ELSE FALSE

\* The edgel of that saddle the loop on i looks at.
SaddleStartEdgel == S[it + 1].x + (S[it + 1].y + edge) * w

\* The loop stands at the first edgel of the first saddle of its group.
GroupStart ==
    /\ AtSaddle
    /\ edge = 0
    /\ IF it = 0 THEN TRUE ELSE qlevel(S[it].value) # lineLevel

\* The saddle phase goes on inside one group.
InsideGroup ==
    /\ S # <<>>
    /\ pc \in {"group", "trace"}
    /\ pc' \in {"group", "trace"}

\* C19: visit is all false when the edgels of an extremum start to be
\* looked at and when a group of saddles of one quantized level starts;
\* inside a group no entry of visit is cleared; a start edgel that is
\* already visited produces no new line.
C19_VisitPerGroup ==
    /\ []((pc = "plateau" /\ it = 0) => visit = AllFalse)
    /\ [](GroupStart => visit = AllFalse)
    /\ [][InsideGroup => \A k \in DOMAIN visit : visit[k] => visit'[k]]_vars
    /\ [][(AtSaddle /\ (IF AtSaddle THEN visit[SaddleStartEdgel] ELSE FALSE))
            => (pc' = "group" /\ ll' = ll /\ line' = line)]_vars

\* C19 witness: the loop stands at a later saddle of a group whose start
\* edgel was visited by a line of an earlier saddle of the same group.
C19_Witness ==
    /\ AtSaddle
    /\ it >= 1
    /\ IF AtSaddle /\ it >= 1
       THEN /\ qlevel(S[it].value) = lineLevel
            /\ visit[SaddleStartEdgel]
            /\ Len(ll) >= 1
            /\ ll[Len(ll)].type = "SADDLE"
       ELSE FALSE

Min2(i, j) == IF i < j THEN i ELSE j
Max2(i, j) == IF i < j THEN j ELSE i

\* The dual pixel of a call of level_saddle has been looked at; qlevel has
\* returned.
SaddleCalled == pc \in {"qlevel", "done"} /\ arg # <<>>
QlevelReturned == pc = "done" /\ arg # <<>>

\* The rule of the saddle on the corners a = im[0], b = im[1], c = im[w],
\* d = im[w+1] of the dual pixel of top-left vertex (0,0).
BothBelow == im[1] < Min2(im[0], im[w + 1]) /\ im[w] < Min2(im[0], im[w + 1])
BothAbove == im[1] > Max2(im[0], im[w + 1]) /\ im[w] > Max2(im[0], im[w + 1])

\* The value val, exact fraction or float, is strictly between the pair
\* a, d and the pair b, c.
BetweenPairs(val, Lt(_, _)) ==
    \/ /\ Lt(RInt(Max2(im[1], im[w])), val)
       /\ Lt(val, RInt(Min2(im[0], im[w + 1])))
    \/ /\ Lt(RInt(Max2(im[0], im[w + 1])), val)
       /\ Lt(val, RInt(Min2(im[1], im[w])))

\* C20: level_saddle and fill_virtual_samples report a saddle in the dual
\* pixel if and only if b and c are both below min(a,d) or both above
\* max(a,d); then a+d-b-c is not 0, the value is (a*d-b*c)/(a+d-b-c), the
\* num/denom of Hyperbola, and lies strictly between the pair a,d and the
\* pair b,c; any other dual pixel has no saddle and the virtual sample -1.
C20_SaddleCriterion ==
    SaddleCalled =>
        /\ res.found <=> (BothBelow \/ BothAbove)
        /\ (res.virtual # RInt(-1)) <=> (BothBelow \/ BothAbove)
        /\ (BothBelow \/ BothAbove) =>
              /\ SaddleDenom(update_levels(<<0, 0>>)) # 0
              /\ res.hyp.denom > 0
              /\ res.virtual = SaddleValue(update_levels(<<0, 0>>))
              /\ res.virtual = Rat(res.hyp.num, res.hyp.denom)
              /\ res.value = FloatQuotient(res.hyp.num, res.hyp.denom)
              /\ BetweenPairs(res.virtual, RLt)
              /\ BetweenPairs(res.value, FloatLt)

\* C20 witness: a saddle with b and c below a and d, whose value is not a
\* float.
C20_Witness ==
    /\ SaddleCalled
    /\ BothBelow
    /\ res.found
    /\ res.value # res.virtual

\* The integral part of a value and the number of whole quantization steps
\* in its fraction, for a float given as a fraction whose denominator is a
\* power of two.
Floor(val) == val[1] \div val[2]
FracSteps(val) ==
    IF val[2] >= QLEVEL THEN (val[1] % val[2]) \div (val[2] \div QLEVEL)
    ELSE (val[1] % val[2]) * (QLEVEL \div val[2])

\* q, in units of 1/QLEVEL, is the quantized level the claim gives to val.
QuantizedAsClaimed(val, q) ==
    /\ q = QLEVEL * Floor(val)
             + Max2(2, Min2(QLEVEL - 2, FracSteps(val)))
    /\ QLEVEL * Floor(val) < q
    /\ q < QLEVEL * (Floor(val) + 1)
    /\ q % QLEVEL \notin {0, 1, QLEVEL - 1}

\* The level q is strictly between the pixel values u and t.
BetweenEnds(q, u, t) ==
    \/ LevelAbove(q, u) /\ LevelBelow(q, t)
    \/ LevelAbove(q, t) /\ LevelBelow(q, u)

\* C18: qlevel(v) is floor(v) + s/512 with s = floor(frac(v)*512) clamped
\* to [2, 510]: strictly between floor(v) and floor(v)+1, neither a pixel
\* value nor an extremum level n +/- 1/512, non-decreasing in v, and for
\* a saddle value strictly between the end values of the top edgel and of
\* the bottom edgel of the dual pixel.
C18_QuantizedLevel ==
    QlevelReturned =>
        /\ QuantizedAsClaimed(arg, res.other)
        /\ res.found =>
              /\ QuantizedAsClaimed(res.value, res.level)
              /\ FloatLt(res.value, arg) => res.level <= res.other
              /\ FloatLt(arg, res.value) => res.other <= res.level
              /\ BetweenEnds(res.level, im[0], im[1])
              /\ BetweenEnds(res.level, im[w], im[w + 1])

\* C18 witness: the lower clamp acts on a saddle value that is no integer,
\* the upper clamp on the other value.
C18_Witness ==
    /\ QlevelReturned
    /\ res.found
    /\ res.value[2] > 1
    /\ FracSteps(res.value) < 2
    /\ FracSteps(arg) > QLEVEL - 2

(***************************************************************************)
(* Properties of the merge loop, of the canonical elements and of the      *)
(* tree of persistence().                                                  *)
(***************************************************************************)
InMergeLoop == pc = "merge"

\* The position of a sample in orderedPos.
PositionOf(s) == CHOOSE i \in DOMAIN orderedPos : orderedPos[i] = s

\* The root of the component of a processed sample: the end of its chain
\* of parents.
RECURSIVE RootOf(_)
RootOf(s) == IF Parent(s) = s THEN s ELSE RootOf(Parent(s))

Roots == {s \in Processed : Parent(s) = s}
ComponentOf(r) == {s \in Processed : RootOf(s) = r}

\* C21: in the merge loop the sample processed last is its own parent; the
\* root of every component is the sample of the component processed most
\* recently; when all samples are processed exactly one sample is its own
\* parent, the last one of the sorted order.
C21_RootIsLatest ==
    InMergeLoop =>
        /\ \A s \in Processed :
              (PositionOf(s) = p - 1) => Parent(s) = s
        /\ \A s \in Processed : PositionOf(s) <= PositionOf(RootOf(s))
        /\ (p = 2 * w * h) => Roots = {orderedPos[2 * w * h - 1]}

\* C21 witness: in the middle of the loop there are two components, one of
\* them with a virtual sample.
C21_Witness ==
    /\ InMergeLoop
    /\ p < 2 * w * h
    /\ Cardinality(Roots) >= 2
    /\ \E s \in Processed : ~s.real /\ RootOf(s) # s

AfterMakeCanonical == pc = "compute_tree"

\* The samples compute_tree gives a node to.
NodeSamples == {s \in AllSamples : is_canonical(s, fim, par)}

\* The representative fill_persistence takes for a real sample.
Representative(s) == IF is_canonical(s, fim, par) THEN s ELSE Parent(s)

\* C22: after make_canonical the parent of every processed sample is
\* canonical: it is the root or its own parent has another value; a
\* processed sample is not canonical exactly when it is not the root and
\* has the value of its parent; so the parents compute_tree looks up and
\* the representatives fill_persistence looks up have a node, and the map
\* gets no other key.
C22_ParentsCanonical ==
    /\ AfterMakeCanonical =>
          /\ \A s \in Processed :
                /\ Parent(s) \in Processed
                /\ \/ Parent(Parent(s)) = Parent(s)
                   \/ fim[idx(Parent(Parent(s)))] # fim[idx(Parent(s))]
                /\ ~is_canonical(s, fim, par)
                      <=> (Parent(s) # s /\ fim[idx(s)] = fim[idx(Parent(s))])
          /\ \A s \in NodeSamples : Parent(s) \in NodeSamples
          /\ \A s \in AllSamples : s.real => Representative(s) \in NodeSamples
    /\ pc \in {"uptree", "downtree", "fill_persistence"} =>
          /\ DOMAIN index = NodeSamples
          /\ \A s \in DOMAIN index :
                Parent(s) # s => tree[index[s]].parent = index[Parent(s)]
    /\ \A k \in DOMAIN pm_min : pm_min[k] # Thrown
    /\ \A k \in DOMAIN pm_max : pm_max[k] # Thrown

\* C22 witness: two samples of a plateau are not canonical and have the
\* same parent, which is not the root.
C22_Witness ==
    /\ AfterMakeCanonical
    /\ \E s, t \in Processed :
          /\ s # t
          /\ ~is_canonical(s, fim, par)
          /\ ~is_canonical(t, fim, par)
          /\ Parent(s) = Parent(t)
          /\ Parent(Parent(s)) # Parent(s)

\* A step of the merge loop, and the sample it processes.
MergeIteration == InMergeLoop /\ p < 2 * w * h /\ p' = p + 1
Current == orderedPos[p]

\* The roots whose component the step merges with the current sample.
Merged == {r \in Roots : par'[idx(r)] = Current}

\* The roots of the components of the processed samples among ns.
RootsAmong(ns) == {RootOf(t) : t \in ns \cap Processed}

\* The dual pixels of the image, as virtual samples; the real corners of a
\* dual pixel; the dual pixels a real sample is a corner of.
DualPixels == {v \in AllSamples : ~v.real /\ v.x + 1 < w /\ v.y + 1 < h}
Corners(v) ==
    {t \in AllSamples :
        t.real /\ t.x \in {v.x, v.x + 1} /\ t.y \in {v.y, v.y + 1}}
DualPixelsAt(s) == {v \in DualPixels : s \in Corners(v)}

\* The real samples next to a real sample: by a side, by a side or a
\* corner.
Real4(s) ==
    {t \in AllSamples :
        t.real /\ Abs(t.x - s.x) + Abs(t.y - s.y) = 1}
Real8(s) ==
    {t \in AllSamples :
        t.real /\ t # s /\ Abs(t.x - s.x) <= 1 /\ Abs(t.y - s.y) <= 1}

\* C23: the neighbour relation between real and virtual samples of the
\* merge loop is symmetric: a step on a virtual sample merges the
\* components of its four real corners, and a step on a real sample merges
\* the components of the dual pixels it is a corner of, and beside its
\* real neighbours no other.
C23_NeighboursAsClaimed ==
    [][MergeIteration =>
         IF Current.real
         THEN /\ RootsAmong(DualPixelsAt(Current)) \subseteq Merged
              /\ Merged \subseteq
                    RootsAmong(Real8(Current) \cup DualPixelsAt(Current))
         ELSE Merged = RootsAmong(Corners(Current))]_vars

\* The virtual samples of the image at the four diagonal offsets of a real
\* sample.
DiagonalVirtual(s) ==
    {v \in AllSamples :
        ~v.real /\ Abs(v.x - s.x) = 1 /\ Abs(v.y - s.y) = 1}

\* The samples a step of the merge loop examines for the sample s.
Examined(s) ==
    IF s.real THEN Real4(s) \cup DiagonalVirtual(s) ELSE Corners(s)

\* C24 (as stated): a step on a real sample merges the components of its
\* 8-connected real neighbours, a step on a virtual sample those of the four
\* real corners of its dual pixel.
C24_NeighboursAsClaimed ==
    [][MergeIteration =>
         Merged = RootsAmong(IF Current.real THEN Real8(Current)
                             ELSE Corners(Current))]_vars

\* C24 (amended): a step on a real sample merges the components of its
\* 4-connected real neighbours and of the virtual samples at its four
\* diagonal offsets, a step on a virtual sample those of the four real
\* corners of its dual pixel.
C24_NeighboursAmended ==
    [][MergeIteration => Merged = RootsAmong(Examined(Current))]_vars

\* The sample processed by the last step of the merge loop, and the child
\* of the root r through which the sample t hangs under r.
Last == orderedPos[p - 1]
RECURSIVE BranchOf(_, _)
BranchOf(r, t) == IF Parent(t) = r THEN t ELSE BranchOf(r, Parent(t))

\* C24 witness: the step has just processed a real sample and merged it
\* with the component of a saddle at a diagonal offset, a component that
\* holds none of its 4-connected real neighbours.
C24_Witness ==
    /\ InMergeLoop
    /\ p >= 1
    /\ Last \in Processed
    /\ Last.real
    /\ \E v \in DiagonalVirtual(Last) \cap Processed :
           \A t \in Real4(Last) \cap Processed :
               BranchOf(Last, t) # BranchOf(Last, v)

\* The state right after the up pass of the contrasts.
AfterUptree == pc = "downtree"

\* The children of a node, the smallest level in its subtree, and what a
\* child brings to the contrast of its parent.
ChildrenOf(n) == {tree[n].children[i] : i \in 1..Len(tree[n].children)}
RECURSIVE SubtreeMin(_)
SubtreeMin(n) ==
    LET below == {SubtreeMin(c) : c \in ChildrenOf(n)}
        all == below \cup {tree[n].level}
    IN  CHOOSE m \in all : \A l \in all : RLe(m, l)
Brought(n, c) ==
    RAdd(tree[c].contrast, RSub(tree[n].level, tree[c].level))
REq(a, b) == RLe(a, b) /\ RLe(b, a)

\* C25: after the up pass every leaf has contrast 0, the contrast of a node
\* with children is the largest of contrast(c) + level(n) - level(c) over
\* its children c, and the contrast of every node is its level minus the
\* smallest level in its subtree, never negative.
C25_UptreeContrast ==
    AfterUptree =>
        \A n \in DOMAIN tree :
            /\ ChildrenOf(n) = {} => REq(tree[n].contrast, RInt(0))
            /\ ChildrenOf(n) # {} =>
                  /\ \E c \in ChildrenOf(n) :
                        REq(tree[n].contrast, Brought(n, c))
                  /\ \A c \in ChildrenOf(n) :
                        RLe(Brought(n, c), tree[n].contrast)
            /\ REq(tree[n].contrast, RSub(tree[n].level, SubtreeMin(n)))
            /\ RLe(RInt(0), tree[n].contrast)

\* C25 witness: the up pass has run on a tree where a node has two children
\* that bring different contrasts, one of them with children of its own.
C25_Witness ==
    /\ AfterUptree
    /\ \E n \in DOMAIN tree :
          \E c, d \in ChildrenOf(n) :
              /\ RLt(Brought(n, c), Brought(n, d))
              /\ ChildrenOf(d) # {}
              /\ RLt(RInt(0), tree[c].contrast)

\* The virtual samples fill_virtual_samples leaves without a saddle value:
\* those of the last column and row, and the dual pixels where the pixels of
\* one diagonal are not both above or both below those of the other.
HasSaddle(v) ==
    /\ v \in DualPixels
    /\ LET a == input[v.x + v.y * w]
           b == input[v.x + 1 + v.y * w]
           c == input[v.x + (v.y + 1) * w]
           d == input[v.x + 1 + (v.y + 1) * w]
       IN  \/ (b < a /\ b < d /\ c < a /\ c < d)
           \/ (b > a /\ b > d /\ c > a /\ c > d)
SentinelSamples == {v \in AllSamples : ~v.real /\ ~HasSaddle(v)}

\* C26: the merge loop walks the samples in non-decreasing order of value,
\* among equal values the real ones before the virtual ones and then in the
\* order of (y, x); the samples it never reaches are exactly the virtual
\* samples that carry the sentinel: every real sample and every virtual
\* sample with a saddle is processed, at its turn.
C26_OrderAndSkips ==
    InMergeLoop =>
        /\ \A i, j \in DOMAIN orderedPos :
              i < j =>
                 LET s == orderedPos[i]
                     t == orderedPos[j]
                 IN  /\ RLe(fim[idx(s)], fim[idx(t)])
                     /\ REq(fim[idx(s)], fim[idx(t)]) =>
                           \/ s.real /\ ~t.real
                           \/ /\ s.real = t.real
                              /\ s.y < t.y \/ (s.y = t.y /\ s.x < t.x)
        /\ \A s \in AllSamples :
              s \in Processed <=> (s \notin SentinelSamples /\ PositionOf(s) < p)

=============================================================================
